---- MODULE Spec2Model ----
(***************************************************************************)
(* Geometric transform engine of the PDF page editor (geometry.ts), the    *)
(* TransformPipeline that drives it, the raster preview renderer's         *)
(* source-rectangle computation, the recipe validation, the blob registry  *)
(* of PDFMemoryManager, the preview cache of PagePreviewService and the    *)
(* SequentialPageLoader behind PDFLoaderAdapter.loadPagesSequentially.     *)
(*                                                                         *)
(* JavaScript numbers are modelled as exact rationals [n |-> _, d |-> _]   *)
(* in lowest terms with d > 0, so two numbers are equal exactly when the   *)
(* records are equal.  Rounding error of IEEE doubles is not modelled.     *)
(***************************************************************************)
EXTENDS Integers, Sequences, FiniteSets, TLC

VARIABLES
    fn,             \* function or method applied by the last call ("none": idle)
    args,           \* its arguments
    result,         \* the value it returned
    pipeline,       \* TransformPipeline: originalDims, targetDims, editHistory, transforms
    cropSet,        \* history: the crop of the last setCrop and the sourceRect of
                    \* getCanvasTransform() right after it (Null: no crop set)
    manager,        \* PDFMemoryManager: options, blobRegistry, qualityLRU, nupLRU,
                    \* stats, activeBlobSize
    frame,          \* locals of the manager method that is running a loop
                    \* (Null: no loop running)
    recency,        \* history: the registered keys, ordered by their latest
                    \* registerBlob, touchBlob or getBlob, oldest first
    previewCache,   \* PagePreviewService.previewCache: the entries of the Map in
                    \* insertion order, each a key and the canvas cached under it
    rendering,      \* the getPreview calls waiting for renderPageToCanvas
    loader,         \* SequentialPageLoader: options, isLoading, queue,
                    \* loadingPages, loadedPages, aborted, stats
    loops,          \* the processQueue calls that have not returned: the job each
                    \* is in, its position in the job and the renders it awaits
    promises,       \* the promises loadPagesSequentially has returned
    observed        \* history: the renderFunction calls started per page, the
                    \* pages an abort cancelled, and what has been called

vars == <<fn, args, result, pipeline, cropSet, manager, frame, recency,
          previewCache, rendering, loader, loops, promises, observed>>
memoryVars == <<manager, frame, recency>>
previewVars == <<previewCache, rendering>>
loaderVars == <<loader, loops, promises, observed>>
serviceVars == <<previewVars, loaderVars>>
geometryVars == <<fn, args, result>>
pipelineVars == <<pipeline, cropSet>>

----------------------------------------------------------------------------
(* Exact arithmetic on JavaScript numbers *)

Abs(i) == IF i < 0 THEN -i ELSE i

RECURSIVE GCD(_, _)
GCD(a, b) == IF b = 0 THEN a ELSE GCD(b, a % b)

\* The number n/d, in lowest terms with a positive denominator.
Q(n, d) ==
    LET s == IF d < 0 THEN -1 ELSE 1
        g == GCD(Abs(n), Abs(d))
    IN  [n |-> (s * n) \div g, d |-> (s * d) \div g]

N(i) == [n |-> i, d |-> 1]

Zero == N(0)
One == N(1)

\* The common divisor of two denominators, by which cross products are
\* shortened before they are taken.
DenGCD(a, b) == IF a.d = 0 /\ b.d = 0 THEN 1 ELSE GCD(a.d, b.d)

AddOver(a, b, g) == Q(a.n * (b.d \div g) + b.n * (a.d \div g), (a.d \div g) * b.d)
Add(a, b) ==
    IF a.d = 1 /\ b.d = 1 THEN [n |-> a.n + b.n, d |-> 1]
    ELSE AddOver(a, b, DenGCD(a, b))
Neg(a) == [n |-> -a.n, d |-> a.d]
Sub(a, b) == Add(a, Neg(b))
MulReduced(x, y) == [n |-> x.n * y.n, d |-> x.d * y.d]
Mul(a, b) ==
    IF a.d = 1 /\ b.d = 1 THEN [n |-> a.n * b.n, d |-> 1]
    ELSE MulReduced(Q(a.n, b.d), Q(b.n, a.d))
Div(a, b) == Mul(a, Q(b.d, b.n))
Lt(a, b) == a.n * b.d < b.n * a.d
Le(a, b) == a.n * b.d <= b.n * a.d
Gt(a, b) == Lt(b, a)
Ge(a, b) == Le(b, a)

\* Math.min, Math.max, Math.abs, Math.sign
Min(a, b) == IF Le(a, b) THEN a ELSE b
Max(a, b) == IF Ge(a, b) THEN a ELSE b
AbsQ(a) == [n |-> Abs(a.n), d |-> a.d]
Sign(a) == N(IF a.n > 0 THEN 1 ELSE IF a.n < 0 THEN -1 ELSE 0)

\* Math.floor and Math.round (round half towards +Infinity), as integers.
Floor(a) == a.n \div a.d
Round(a) == Floor(Add(a, Q(1, 2)))

\* Truncation towards zero, and the JavaScript remainder a % m, whose sign
\* is the sign of a.
Trunc(a) == IF a.n >= 0 THEN a.n \div a.d ELSE -((-a.n) \div a.d)
Rem(a, m) == Sub(a, Mul(m, N(Trunc(Div(a, m)))))

\* JavaScript's `x || dflt` on a number: 0 is falsy.
OrDefault(x, dflt) == IF x.n = 0 THEN dflt ELSE x

\* null / undefined
Null == [null |-> TRUE]

\* ((rotation % 360) + 360) % 360
normalizeRotation(rotation) == Rem(Add(Rem(rotation, N(360)), N(360)), N(360))

----------------------------------------------------------------------------
(* Rotation-space mapper *)

CropOf(x, y, width, height) == [x |-> x, y |-> y, width |-> width, height |-> height]

\* rotationCase without the rounding: only exact multiples of 90 degrees are
\* recognised, every other rotation falls to the switch's default branch.
rotationCaseExactOnly(rotation) ==
    LET r == normalizeRotation(rotation)
    IN  IF r \in {N(0), N(90), N(180), N(270)} THEN r.n ELSE -1

\* Math.round(normalizedRotation / 90) * 90
rotationCase(rotation) == Round(Div(normalizeRotation(rotation), N(90))) * 90

\* forwardMapCropToRotation with the 90 degree case copied from the backward
\* transform instead of inverted.
forwardMapCropToRotationCopied90(crop, rotation) ==
    LET rc == rotationCase(rotation)
    IN  IF rc = 0 \/ rc = 360 THEN crop
        ELSE CASE rc = 90 ->
                    CropOf(Sub(One, Add(crop.y, crop.height)), crop.x,
                           crop.height, crop.width)
               [] rc = 180 ->
                    CropOf(Sub(One, Add(crop.x, crop.width)),
                           Sub(One, Add(crop.y, crop.height)),
                           crop.width, crop.height)
               [] rc = 270 ->
                    CropOf(Sub(One, Add(crop.y, crop.height)), crop.x,
                           crop.height, crop.width)
               [] OTHER -> crop

forwardMapCropToRotation(crop, rotation) ==
    LET rc == rotationCase(rotation)
    IN  IF rc = 0 \/ rc = 360 THEN crop
        ELSE CASE rc = 90 ->
                    CropOf(crop.y, Sub(One, Add(crop.x, crop.width)),
                           crop.height, crop.width)
               [] rc = 180 ->
                    CropOf(Sub(One, Add(crop.x, crop.width)),
                           Sub(One, Add(crop.y, crop.height)),
                           crop.width, crop.height)
               [] rc = 270 ->
                    CropOf(Sub(One, Add(crop.y, crop.height)), crop.x,
                           crop.height, crop.width)
               [] OTHER -> crop

\* remapCropForRotation with the 90 and 270 degree cases exchanged.
remapCropForRotationSwapped(crop, rotation) ==
    LET rc == rotationCase(rotation)
    IN  IF rc = 0 \/ rc = 360 THEN crop
        ELSE CASE rc = 270 ->
                    CropOf(Sub(One, Add(crop.y, crop.height)), crop.x,
                           crop.height, crop.width)
               [] rc = 180 ->
                    CropOf(Sub(One, Add(crop.x, crop.width)),
                           Sub(One, Add(crop.y, crop.height)),
                           crop.width, crop.height)
               [] rc = 90 ->
                    CropOf(crop.y, Sub(One, Add(crop.x, crop.width)),
                           crop.height, crop.width)
               [] OTHER -> crop

remapCropForRotation(crop, rotation) ==
    LET rc == rotationCase(rotation)
    IN  IF rc = 0 \/ rc = 360 THEN crop
        ELSE CASE rc = 90 ->
                    CropOf(Sub(One, Add(crop.y, crop.height)), crop.x,
                           crop.height, crop.width)
               [] rc = 180 ->
                    CropOf(Sub(One, Add(crop.x, crop.width)),
                           Sub(One, Add(crop.y, crop.height)),
                           crop.width, crop.height)
               [] rc = 270 ->
                    CropOf(crop.y, Sub(One, Add(crop.x, crop.width)),
                           crop.height, crop.width)
               [] OTHER -> crop

\* remapCropBetweenRotations that skips step 1 and takes the crop as one of
\* the original page.
remapCropBetweenRotationsForwardOnly(crop, oldRotation, newRotation) ==
    forwardMapCropToRotation(crop, newRotation)

remapCropBetweenRotations(crop, oldRotation, newRotation) ==
    LET cropInOriginalSpace == remapCropForRotation(crop, oldRotation)
    IN  forwardMapCropToRotation(cropInOriginalSpace, newRotation)

----------------------------------------------------------------------------
(* Normalizer *)

MIN_CROP_SIZE == Q(1, 100)
MIN_SCALE == 10
MAX_SCALE == 500

EditOf(cropArea, rotation, scale, offsetX, offsetY) ==
    [cropArea |-> cropArea, rotation |-> rotation, scale |-> scale,
     offsetX |-> offsetX, offsetY |-> offsetY]

\* normalizeCropArea that shrinks a crop crossing the right or bottom edge
\* (width = 1 - x) instead of shifting it.
normalizeCropAreaShrinking(crop) ==
    LET width0 == Max(MIN_CROP_SIZE, Max(Zero, Min(One, crop.width)))
        height0 == Max(MIN_CROP_SIZE, Max(Zero, Min(One, crop.height)))
        x == Max(Zero, Min(One, crop.x))
        y == Max(Zero, Min(One, crop.y))
        width == IF Gt(Add(x, width0), One) THEN Sub(One, x) ELSE width0
        height == IF Gt(Add(y, height0), One) THEN Sub(One, y) ELSE height0
    IN  IF \/ Lt(x, Zero) \/ Lt(y, Zero) \/ Le(width, Zero) \/ Le(height, Zero)
           \/ Gt(Add(x, width), One) \/ Gt(Add(y, height), One)
        THEN CropOf(Zero, Zero, One, One)
        ELSE CropOf(x, y, width, height)

normalizeCropArea(crop) ==
    LET width0 == Max(MIN_CROP_SIZE, Max(Zero, Min(One, crop.width)))
        height0 == Max(MIN_CROP_SIZE, Max(Zero, Min(One, crop.height)))
        x0 == Max(Zero, Min(One, crop.x))
        y0 == Max(Zero, Min(One, crop.y))
        overX == Gt(Add(x0, width0), One)
        newX == Sub(One, width0)
        x == IF overX THEN (IF Ge(newX, Zero) THEN newX ELSE Zero) ELSE x0
        width == IF overX /\ ~Ge(newX, Zero) THEN One ELSE width0
        overY == Gt(Add(y0, height0), One)
        newY == Sub(One, height0)
        y == IF overY THEN (IF Ge(newY, Zero) THEN newY ELSE Zero) ELSE y0
        height == IF overY /\ ~Ge(newY, Zero) THEN One ELSE height0
    IN  IF \/ Lt(x, Zero) \/ Lt(y, Zero) \/ Le(width, Zero) \/ Le(height, Zero)
           \/ Gt(Add(x, width), One) \/ Gt(Add(y, height), One)
        THEN CropOf(Zero, Zero, One, One)
        ELSE CropOf(x, y, width, height)

\* normalizeRotationField that stays in [0, 360).
normalizeRotationFieldUnsigned(rotation) ==
    LET r0 == normalizeRotation(OrDefault(rotation, Zero))
    IN  Q(Round(Mul(r0, N(10))), 10)

normalizeRotationField(rotation) ==
    LET r0 == normalizeRotation(OrDefault(rotation, Zero))
        r1 == IF Gt(r0, N(180)) THEN Sub(r0, N(360)) ELSE r0
    IN  Q(Round(Mul(r1, N(10))), 10)

\* normalizeScale without the upper clamp.
normalizeScaleNoMax(scale) ==
    LET s0 == OrDefault(scale, N(100))
    IN  IF Lt(s0, N(MIN_SCALE)) THEN N(MIN_SCALE) ELSE s0

normalizeScale(scale) ==
    LET s0 == OrDefault(scale, N(100))
        s1 == IF Lt(s0, N(MIN_SCALE)) THEN N(MIN_SCALE) ELSE s0
    IN  IF Gt(s1, N(MAX_SCALE)) THEN N(MAX_SCALE) ELSE s1

normalizeOffset(offset, dim) ==
    LET maxOffset == Mul(dim, Q(1, 2))
        o == OrDefault(offset, Zero)
    IN  IF Gt(AbsQ(o), maxOffset) THEN Mul(Sign(o), maxOffset) ELSE o

\* normalizeEditHistory that takes the scale of an absent edit as a factor.
normalizeEditHistoryUnitScale(originalDims, editHistory) ==
    IF editHistory = Null
    THEN EditOf(Null, Zero, One, Zero, Zero)
    ELSE EditOf(IF editHistory.cropArea # Null
                    THEN normalizeCropArea(editHistory.cropArea) ELSE Null,
                normalizeRotationField(editHistory.rotation),
                normalizeScale(editHistory.scale),
                normalizeOffset(editHistory.offsetX, originalDims.width),
                normalizeOffset(editHistory.offsetY, originalDims.height))

\* normalizeEditHistory that passes the crop area through as it was given.
normalizeEditHistoryRawCrop(originalDims, editHistory) ==
    IF editHistory = Null
    THEN EditOf(Null, Zero, N(100), Zero, Zero)
    ELSE EditOf(editHistory.cropArea,
                normalizeRotationField(editHistory.rotation),
                normalizeScale(editHistory.scale),
                normalizeOffset(editHistory.offsetX, originalDims.width),
                normalizeOffset(editHistory.offsetY, originalDims.height))

normalizeEditHistory(originalDims, editHistory) ==
    IF editHistory = Null
    THEN EditOf(Null, Zero, N(100), Zero, Zero)
    ELSE EditOf(IF editHistory.cropArea # Null
                    THEN normalizeCropArea(editHistory.cropArea) ELSE Null,
                normalizeRotationField(editHistory.rotation),
                normalizeScale(editHistory.scale),
                normalizeOffset(editHistory.offsetX, originalDims.width),
                normalizeOffset(editHistory.offsetY, originalDims.height))

----------------------------------------------------------------------------
(* Transform builder, affine composer, canonical facade *)

DimsOf(width, height) == [width |-> width, height |-> height]

IsQuarterTurn(rotation) ==
    normalizeRotation(rotation) \in {N(0), N(90), N(180), N(270)}

\* Math.sin and Math.cos of an angle in degrees. The sine of a half turn is
\* taken by Bhaskara's rational formula 4x(180 - x) / (40500 - x(180 - x)),
\* which is exact at 0, 30, 90, 150 and 180 degrees and within 0.002
\* elsewhere, so that the angles off the quarter turns have a value too.
SinHalfTurn(x) ==
    Div(Mul(N(4), Mul(x, Sub(N(180), x))),
        Sub(N(40500), Mul(x, Sub(N(180), x))))

SinDeg(degrees) ==
    LET r == normalizeRotation(degrees)
    IN  IF Le(r, N(180)) THEN SinHalfTurn(r) ELSE Neg(SinHalfTurn(Sub(r, N(180))))

CosDeg(degrees) == SinDeg(Add(degrees, N(90)))

\* Math.cos and Math.sin of (-rotation * Math.PI) / 180
CosNeg(rotation) == CosDeg(Neg(rotation))

SinNeg(rotation) == SinDeg(Neg(rotation))

\* const { cropArea, rotation = 0, scale = 100, offsetX = 0, offsetY = 0 } = editHistory || {}
EditOrDefaults(editHistory) ==
    IF editHistory = Null THEN EditOf(Null, Zero, N(100), Zero, Zero) ELSE editHistory

buildSourceRect(originalDims, cropArea, rotation) ==
    IF cropArea = Null
    THEN CropOf(Zero, Zero, originalDims.width, originalDims.height)
    ELSE LET cropInOriginalSpace ==
                 IF rotation # Zero THEN remapCropForRotation(cropArea, rotation)
                 ELSE cropArea
         IN  CropOf(Mul(cropInOriginalSpace.x, originalDims.width),
                    Mul(cropInOriginalSpace.y, originalDims.height),
                    Mul(cropInOriginalSpace.width, originalDims.width),
                    Mul(cropInOriginalSpace.height, originalDims.height))

\* buildScaleToFit that fits at every rotation, 0 included (as
\* calculateScaleToFit does).
buildScaleToFitAlways(sourceRect, targetDims, rotation) ==
    LET normalizedRotation == normalizeRotation(rotation)
        isRotated90or270 == normalizedRotation = N(90) \/ normalizedRotation = N(270)
    IN  IF isRotated90or270
        THEN Mul(Min(Div(targetDims.width, sourceRect.height),
                     Div(targetDims.height, sourceRect.width)), Q(90, 100))
        ELSE Mul(Min(Div(targetDims.width, sourceRect.width),
                     Div(targetDims.height, sourceRect.height)), Q(90, 100))

\* buildScaleToFit that never swaps width and height.
buildScaleToFitNoSwap(sourceRect, targetDims, rotation) ==
    IF rotation # Zero
    THEN Mul(Min(Div(targetDims.width, sourceRect.width),
                 Div(targetDims.height, sourceRect.height)), Q(90, 100))
    ELSE One

buildScaleToFit(sourceRect, targetDims, rotation) ==
    LET normalizedRotation == normalizeRotation(rotation)
        isRotated90or270 == normalizedRotation = N(90) \/ normalizedRotation = N(270)
    IN  IF rotation # Zero
        THEN IF isRotated90or270
             THEN Mul(Min(Div(targetDims.width, sourceRect.height),
                          Div(targetDims.height, sourceRect.width)), Q(90, 100))
             ELSE Mul(Min(Div(targetDims.width, sourceRect.width),
                          Div(targetDims.height, sourceRect.height)), Q(90, 100))
        ELSE One

\* TransformOfDraw that adds offsetY on the PDF page instead of flipping it.
TransformOfDrawNoFlip(targetDims, e, sourceRect, scaleToFit, finalScale, drawWidth, drawHeight) ==
    LET cos == CosNeg(e.rotation)
        sin == SinNeg(e.rotation)
        vectorX == Div(Neg(drawWidth), N(2))
        vectorY == Div(Neg(drawHeight), N(2))
        pageCenterX == Div(targetDims.width, N(2))
        pageCenterY == Div(targetDims.height, N(2))
    IN  [sourceRect |-> sourceRect,
         scaleToFit |-> scaleToFit,
         finalScale |-> finalScale,
         drawWidth |-> drawWidth,
         drawHeight |-> drawHeight,
         drawX |-> Div(Neg(drawWidth), N(2)),
         drawY |-> Div(Neg(drawHeight), N(2)),
         pdfDrawX |-> Add(Add(pageCenterX,
                              Sub(Mul(vectorX, cos), Mul(vectorY, sin))),
                          e.offsetX),
         pdfDrawY |-> Add(Add(pageCenterY,
                              Add(Mul(vectorX, sin), Mul(vectorY, cos))),
                          e.offsetY),
         pdfRotation |-> Neg(e.rotation),
         offsetX |-> e.offsetX,
         offsetY |-> e.offsetY]

\* Steps 5 and 6: the draw position on the canvas and on the PDF page.
TransformOfDraw(targetDims, e, sourceRect, scaleToFit, finalScale, drawWidth, drawHeight) ==
    LET cos == CosNeg(e.rotation)
        sin == SinNeg(e.rotation)
        vectorX == Div(Neg(drawWidth), N(2))
        vectorY == Div(Neg(drawHeight), N(2))
        pageCenterX == Div(targetDims.width, N(2))
        pageCenterY == Div(targetDims.height, N(2))
    IN  [sourceRect |-> sourceRect,
         scaleToFit |-> scaleToFit,
         finalScale |-> finalScale,
         drawWidth |-> drawWidth,
         drawHeight |-> drawHeight,
         drawX |-> Div(Neg(drawWidth), N(2)),
         drawY |-> Div(Neg(drawHeight), N(2)),
         pdfDrawX |-> Add(Add(pageCenterX,
                              Sub(Mul(vectorX, cos), Mul(vectorY, sin))),
                          e.offsetX),
         pdfDrawY |-> Sub(Add(pageCenterY,
                              Add(Mul(vectorX, sin), Mul(vectorY, cos))),
                          e.offsetY),
         pdfRotation |-> Neg(e.rotation),
         offsetX |-> e.offsetX,
         offsetY |-> e.offsetY]

\* Step 4: the final draw dimensions.
TransformOfFinalScale(targetDims, e, sourceRect, scaleToFit, finalScale) ==
    TransformOfDraw(targetDims, e, sourceRect, scaleToFit, finalScale,
                    Mul(sourceRect.width, finalScale),
                    Mul(sourceRect.height, finalScale))

\* TransformOfScaleToFit that leaves the user scale out of finalScale.
TransformOfScaleToFitNoUserScale(targetDims, e, sourceRect, scaleToFit) ==
    TransformOfFinalScale(targetDims, e, sourceRect, scaleToFit, scaleToFit)

\* Step 3: the user scale on top of the auto-fit.
TransformOfScaleToFit(targetDims, e, sourceRect, scaleToFit) ==
    TransformOfFinalScale(targetDims, e, sourceRect, scaleToFit,
                          Mul(scaleToFit, Div(e.scale, N(100))))

\* Step 2: the auto-scale that fits rotated content in the target page.
TransformOfSourceRect(targetDims, e, sourceRect) ==
    TransformOfScaleToFit(targetDims, e, sourceRect,
                          buildScaleToFit(sourceRect, targetDims, e.rotation))

\* Step 1: the source rectangle.
TransformOfEdit(originalDims, targetDims, e) ==
    TransformOfSourceRect(targetDims, e,
                          buildSourceRect(originalDims, e.cropArea, e.rotation))

buildGeometricTransform(originalDims, targetDims, editHistory) ==
    TransformOfEdit(originalDims, targetDims, EditOrDefaults(editHistory))

\* buildAffineMatrix whose translation leaves out the rotated and scaled
\* center.
buildAffineMatrixNoRecentre(centerX, centerY, rotation, scale, offsetX, offsetY) ==
    LET cos == CosNeg(rotation)
        sin == SinNeg(rotation)
    IN  [a |-> Mul(scale, cos), b |-> Mul(scale, sin),
         c |-> Mul(Neg(scale), sin), d |-> Mul(scale, cos),
         e |-> Add(centerX, offsetX), f |-> Add(centerY, offsetY)]

buildAffineMatrix(centerX, centerY, rotation, scale, offsetX, offsetY) ==
    LET cos == CosNeg(rotation)
        sin == SinNeg(rotation)
        a == Mul(scale, cos)
        b == Mul(scale, sin)
        c == Mul(Neg(scale), sin)
        d == Mul(scale, cos)
        e == Sub(Add(centerX, offsetX), Add(Mul(centerX, a), Mul(centerY, c)))
        f == Sub(Add(centerY, offsetY), Add(Mul(centerX, b), Mul(centerY, d)))
    IN  [a |-> a, b |-> b, c |-> c, d |-> d, e |-> e, f |-> f]

\* Step 3 of the facade: { ...transform, affineMatrix }
CanonicalOfTransform(targetDims, normalized, transform) ==
    [sourceRect |-> transform.sourceRect,
     scaleToFit |-> transform.scaleToFit,
     finalScale |-> transform.finalScale,
     drawWidth |-> transform.drawWidth,
     drawHeight |-> transform.drawHeight,
     drawX |-> transform.drawX,
     drawY |-> transform.drawY,
     pdfDrawX |-> transform.pdfDrawX,
     pdfDrawY |-> transform.pdfDrawY,
     pdfRotation |-> transform.pdfRotation,
     offsetX |-> transform.offsetX,
     offsetY |-> transform.offsetY,
     affineMatrix |-> buildAffineMatrix(Div(targetDims.width, N(2)),
                                        Div(targetDims.height, N(2)),
                                        OrDefault(normalized.rotation, Zero),
                                        transform.finalScale,
                                        OrDefault(normalized.offsetX, Zero),
                                        OrDefault(normalized.offsetY, Zero))]

\* Step 2 of the facade: the geometric transform of the normalized edit.
CanonicalOfNormalized(originalDims, targetDims, normalized) ==
    CanonicalOfTransform(targetDims, normalized,
                         buildGeometricTransform(originalDims, targetDims, normalized))

buildCanonicalTransform(originalDims, targetDims, editHistory) ==
    CanonicalOfNormalized(originalDims, targetDims,
                          normalizeEditHistory(originalDims, editHistory))

----------------------------------------------------------------------------
(* Raster preview renderer (createRenderPageToCanvas) *)

clampRect(x, y, w, h, maxW, maxH) ==
    LET cx == Max(Zero, Min(x, Sub(maxW, One)))
        cy == Max(Zero, Min(y, Sub(maxH, One)))
        cw == Max(One, Min(w, Sub(maxW, cx)))
        ch == Max(One, Min(h, Sub(maxH, cy)))
    IN  CropOf(cx, cy, cw, ch)

calculateSourceRect(crop, rotation, origW, origH) ==
    IF crop = Null THEN CropOf(Zero, Zero, origW, origH)
    ELSE LET isSwapped == rotation = N(90) \/ rotation = N(270)
             viewW == IF isSwapped THEN origH ELSE origW
             viewH == IF isSwapped THEN origW ELSE origH
             vx == Mul(crop.x, viewW)
             vy == Mul(crop.y, viewH)
             vw == Mul(crop.width, viewW)
             vh == Mul(crop.height, viewH)
         IN  CASE rotation = N(0) -> clampRect(vx, vy, vw, vh, origW, origH)
               [] rotation = N(90) ->
                    clampRect(vy, Sub(Sub(origH, vx), vw), vh, vw, origW, origH)
               [] rotation = N(180) ->
                    clampRect(Sub(Sub(origW, vx), vw), Sub(Sub(origH, vy), vh),
                              vw, vh, origW, origH)
               [] rotation = N(270) ->
                    clampRect(Sub(Sub(origW, vy), vh), vx, vh, vw, origW, origH)
               [] OTHER -> clampRect(vx, vy, vw, vh, origW, origH)

\* Steps 4 and 5 of renderPageToCanvas: the translation, the rotation and
\* the arguments of drawImage.
RenderOfFinalScale(targetCanvas, rotation, offsetX, offsetY, sourceRect, finalScale) ==
    [translateX |-> Add(Div(targetCanvas.width, N(2)), offsetX),
     translateY |-> Add(Div(targetCanvas.height, N(2)), offsetY),
     rotation |-> rotation,
     sourceRect |-> sourceRect,
     drawX |-> Div(Neg(Mul(sourceRect.width, finalScale)), N(2)),
     drawY |-> Div(Neg(Mul(sourceRect.height, finalScale)), N(2)),
     drawW |-> Mul(sourceRect.width, finalScale),
     drawH |-> Mul(sourceRect.height, finalScale)]

\* Steps 2 and 3: the content dimensions after rotation and the scale that
\* fits them in the target canvas.
RenderOfSourceRect(targetCanvas, rotation, userScale, offsetX, offsetY, sourceRect) ==
    LET isSwapped == rotation = N(90) \/ rotation = N(270)
        contentW == IF isSwapped THEN sourceRect.height ELSE sourceRect.width
        contentH == IF isSwapped THEN sourceRect.width ELSE sourceRect.height
        fitScale == Min(Div(Mul(targetCanvas.width, Q(95, 100)), contentW),
                        Div(Mul(targetCanvas.height, Q(95, 100)), contentH))
    IN  RenderOfFinalScale(targetCanvas, rotation, offsetX, offsetY, sourceRect,
                           Mul(fitScale, userScale))

RenderOfRotation(targetCanvas, sourceOriginalPage, applySettings, rotation) ==
    RenderOfSourceRect(targetCanvas, rotation,
                       Div(OrDefault(applySettings.scale, N(100)), N(100)),
                       OrDefault(applySettings.offsetX, Zero),
                       OrDefault(applySettings.offsetY, Zero),
                       calculateSourceRect(applySettings.cropArea, rotation,
                                           sourceOriginalPage.width,
                                           sourceOriginalPage.height))

renderPageToCanvas(targetCanvas, sourceOriginalPage, applySettings) ==
    RenderOfRotation(targetCanvas, sourceOriginalPage, applySettings,
                     normalizeRotation(OrDefault(applySettings.rotation, Zero)))

----------------------------------------------------------------------------
(* TransformPipeline *)

MaxTransforms == 3

PipelineOf(originalDims, targetDims, editHistory, transforms) ==
    [originalDims |-> originalDims, targetDims |-> targetDims,
     editHistory |-> editHistory, transforms |-> transforms]

NewTransformPipeline(originalDims, targetDims) ==
    PipelineOf(originalDims, targetDims, EditOf(Null, Zero, N(100), Zero, Zero), <<>>)

getCanvasTransform(p) ==
    buildCanonicalTransform(p.originalDims, p.targetDims, p.editHistory)

setRotationOn(p, degrees) ==
    LET normalized == normalizeRotation(degrees)
        e == p.editHistory
        cropArea ==
            IF e.cropArea # Null /\ e.rotation # normalized
            THEN remapCropBetweenRotations(e.cropArea, e.rotation, normalized)
            ELSE e.cropArea
    IN  [p EXCEPT !.editHistory = [e EXCEPT !.cropArea = cropArea,
                                            !.rotation = normalized],
                  !.transforms = Append(@, [type |-> "rotation", degrees |-> normalized])]

setScaleOn(p, percentage) ==
    [p EXCEPT !.editHistory.scale = percentage,
              !.transforms = Append(@, [type |-> "scale", percentage |-> percentage])]

setOffsetOn(p, x, y) ==
    [p EXCEPT !.editHistory.offsetX = x,
              !.editHistory.offsetY = y,
              !.transforms = Append(@, [type |-> "offset", x |-> x, y |-> y])]

setCropOn(p, cropArea) ==
    [p EXCEPT !.editHistory.cropArea = cropArea,
              !.transforms = Append(@, [type |-> "crop", area |-> cropArea])]

resetOn(p) ==
    [p EXCEPT !.editHistory = EditOf(Null, Zero, N(100), Zero, Zero),
              !.transforms = <<>>]

----------------------------------------------------------------------------
(* Recipe validation (validateRecipe) *)

TransformsOf(rotation, scale, crop) ==
    [rotation |-> rotation, scale |-> scale, crop |-> crop]

PageOf(transforms) == [transforms |-> transforms]

RecipeOf(version, fileName, pages) ==
    [version |-> version, source |-> [fileName |-> fileName], pages |-> pages]

ErrorOf(page, message) == [page |-> page, message |-> message]

\* The checks of one page, in the order the code makes them. A rotation or a
\* scale of 0 is falsy and skips its check.
pageErrors(transforms, index) ==
    IF transforms = Null THEN <<>>
    ELSE (IF transforms.rotation.n # 0 /\ transforms.rotation \notin {N(0), N(90), N(180), N(270)}
          THEN <<ErrorOf(index, "Invalid rotation")>> ELSE <<>>)
         \o (IF /\ transforms.scale.n # 0
                /\ (Lt(transforms.scale, N(10)) \/ Gt(transforms.scale, N(500)))
             THEN <<ErrorOf(index, "Invalid scale")>> ELSE <<>>)
         \o (IF /\ transforms.crop # Null
                /\ \/ Lt(transforms.crop.x, Zero) \/ Lt(transforms.crop.y, Zero)
                   \/ Le(transforms.crop.width, Zero) \/ Le(transforms.crop.height, Zero)
             THEN <<ErrorOf(index, "Invalid crop area")>> ELSE <<>>)
         \o (IF /\ transforms.crop # Null
                /\ \/ Gt(Add(transforms.crop.x, transforms.crop.width), Q(101, 100))
                   \/ Gt(Add(transforms.crop.y, transforms.crop.height), Q(101, 100))
             THEN <<ErrorOf(index, "Crop area exceeds bounds")>> ELSE <<>>)

\* recipe.pages?.forEach((page, index) => ...), from page `index` on.
RECURSIVE forEachPage(_, _)
forEachPage(pages, index) ==
    IF index > Len(pages) THEN <<>>
    ELSE pageErrors(pages[index].transforms, index) \o forEachPage(pages, index + 1)

recipeErrors(recipe) ==
    (IF recipe.version = Null THEN <<ErrorOf(0, "Missing version")>> ELSE <<>>)
    \o (IF recipe.source.fileName = Null
        THEN <<ErrorOf(0, "Missing source file name")>> ELSE <<>>)
    \o (IF Len(recipe.pages) = 0 THEN <<ErrorOf(0, "No pages in recipe")>> ELSE <<>>)
    \o forEachPage(recipe.pages, 1)

ValidationOf(errors) == [valid |-> Len(errors) = 0, errors |-> errors]

validateRecipe(recipe) == ValidationOf(recipeErrors(recipe))

----------------------------------------------------------------------------
(* Inputs *)

A4 == DimsOf(N(595), N(842))
OrigDimsIn == {A4, DimsOf(N(400), N(300))}
\* A page on which one percent of a side is less than one pixel.
SmallPage == DimsOf(N(50), N(80))
PageDimsIn == OrigDimsIn \cup {SmallPage}
TargetDimsIn == {A4, DimsOf(N(300), N(400))}

QuarterIn == {N(0), N(90), N(180), N(270)}
RotationIn ==
    QuarterIn \cup {N(360), N(-360), N(-90), N(-180), N(450), N(30), N(45), Q(4499, 100),
                    N(135), N(315), Q(18004, 100), Q(35998, 100)}
BetweenRotationIn == QuarterIn \cup {N(-90), N(45)}
ScaleIn == {N(0), N(-5), N(10), N(100), N(250), N(600)}
OffsetXIn == {N(-400), Zero, N(50)}
OffsetYIn == {Zero, N(500)}

CropXIn == {Q(-1, 10), Zero, Q(1, 10), Q(9, 10), Q(199, 200), Q(6, 5)}
CropYIn == {Q(-1, 10), Zero, Q(1, 5), Q(9, 10)}
CropWidthIn == {Zero, Q(1, 200), Q(3, 10), Q(1, 2), Q(6, 5)}
CropHeightIn == {Q(1, 200), Q(3, 10), Q(2, 5), Q(1, 2)}

CropIn ==
    {CropOf(x, y, w, h) : x \in CropXIn, y \in CropYIn,
                          w \in CropWidthIn, h \in CropHeightIn}

\* A crop rectangle of positive size inside the unit square.
InBounds(c) ==
    /\ Ge(c.x, Zero) /\ Ge(c.y, Zero) /\ Gt(c.width, Zero) /\ Gt(c.height, Zero)
    /\ Le(Add(c.x, c.width), One) /\ Le(Add(c.y, c.height), One)

InBoundsCropIn == {c \in CropIn : InBounds(c)}

ScenarioB == CropOf(Q(1, 10), Q(1, 5), Q(3, 10), Q(2, 5))
ScenarioC == CropOf(Zero, Zero, Q(1, 2), Q(1, 2))
ScenarioD == CropOf(Q(9, 10), Q(9, 10), Q(3, 10), Q(3, 10))
Tiny == CropOf(Q(1, 2), Zero, Q(1, 200), Q(1, 2))

\* Every field out of range at once.
ExtremeEdit == EditOf(CropOf(Q(6, 5), Q(-1, 10), Q(6, 5), Zero),
                      N(-450), N(600), N(-400), N(500))

\* Edits that vary the crop under the quarter turns, and edits that vary
\* rotation, scale and offsets with and without a crop.
EditIn ==
    {EditOf(c, r, N(100), Zero, Zero) : c \in CropIn, r \in QuarterIn}
    \cup {EditOf(c, r, s, ox, oy) : c \in {Null, ScenarioB}, r \in RotationIn,
                                    s \in ScaleIn, ox \in OffsetXIn, oy \in OffsetYIn}
    \cup {ExtremeEdit}

\* Rotations that are multiples of 0.1 degree, around the half turn, negative
\* and beyond one turn, and the edits that carry them.
TenthRotationIn ==
    {Q(1801, 10), Q(-1801, 10), Q(1799, 10), Q(-1799, 10), Q(5399, 10),
     Q(-1, 10), Q(3599, 10), Q(-3599, 10), Q(7205, 10), N(540), N(-540)}
TenthRotationEditIn ==
    {EditOf(Null, r, N(100), Zero, Zero) : r \in TenthRotationIn}

\* Edits handed to buildGeometricTransform as they are, not normalized.
GeometricEditIn ==
    {EditOf(c, r, sc, o.x, o.y) :
        c \in {Null, ScenarioB, ScenarioC},
        r \in QuarterIn \cup {N(-90), N(-180), N(360), N(450), N(45)},
        sc \in {N(50), N(100), N(250)},
        o \in {[x |-> Zero, y |-> Zero], [x |-> N(50), y |-> N(-30)]}}

\* Arguments of buildAffineMatrix called on its own.
AffineCenterIn == {[x |-> Q(595, 2), y |-> N(421)], [x |-> N(150), y |-> N(200)]}
AffineRotationIn == QuarterIn \cup {N(-90), N(30), N(45), N(-45), N(150), N(720)}
AffineScaleIn == {One, Q(1, 2), N(5), Q(9, 10)}
AffineOffsetIn == {Zero, N(50), Q(-25, 2)}

\* Page transforms of a recipe: valid ones, one offending field each, several
\* at once, and a page without transforms.
RecipeTransformsIn ==
    {Null,
     TransformsOf(Zero, N(100), Null),
     TransformsOf(N(90), N(10), ScenarioB),
     TransformsOf(N(270), N(500), CropOf(Q(141, 200), Zero, Q(3, 10), One)),
     TransformsOf(N(45), N(100), Null),
     TransformsOf(N(-90), N(100), Null),
     TransformsOf(Zero, Zero, Null),
     TransformsOf(Zero, N(5), Null),
     TransformsOf(Zero, N(-5), Null),
     TransformsOf(Zero, N(600), Null),
     TransformsOf(Zero, N(100), CropOf(Q(-1, 10), Zero, Q(1, 2), Q(1, 2))),
     TransformsOf(Zero, N(100), CropOf(Zero, Zero, Zero, Q(1, 2))),
     TransformsOf(Zero, N(100), ScenarioD),
     TransformsOf(Zero, N(100), CropOf(Zero, Q(-1, 10), Q(1, 2), Q(6, 5))),
     TransformsOf(N(45), N(600), ScenarioD)}

MaxPages == 2
RecipePagesIn ==
    UNION {[1..n -> {PageOf(t) : t \in RecipeTransformsIn}] : n \in 0..MaxPages}

RecipeIn ==
    {RecipeOf(v, f, pages) : v \in {Null, [text |-> "1.0"]},
                             f \in {Null, [text |-> "a.pdf"]},
                             pages \in RecipePagesIn}

----------------------------------------------------------------------------
(* The geometry functions, each call independent of the others *)

CallNormalizeEditHistory ==
    /\ fn = "none"
    /\ \E d \in OrigDimsIn, e \in EditIn \cup TenthRotationEditIn \cup {Null} :
        /\ fn' = "normalizeEditHistory"
        /\ args' = [originalDims |-> d, editHistory |-> e]
        /\ result' = normalizeEditHistory(d, e)
    /\ UNCHANGED <<pipelineVars, memoryVars, serviceVars>>

CallRemapCropForRotation ==
    /\ fn = "none"
    /\ \E c \in CropIn, r \in RotationIn :
        /\ fn' = "remapCropForRotation"
        /\ args' = [crop |-> c, rotation |-> r]
        /\ result' = remapCropForRotation(c, r)
    /\ UNCHANGED <<pipelineVars, memoryVars, serviceVars>>

CallForwardMapCropToRotation ==
    /\ fn = "none"
    /\ \E c \in CropIn, r \in RotationIn :
        /\ fn' = "forwardMapCropToRotation"
        /\ args' = [crop |-> c, rotation |-> r]
        /\ result' = forwardMapCropToRotation(c, r)
    /\ UNCHANGED <<pipelineVars, memoryVars, serviceVars>>

CallRemapCropBetweenRotations ==
    /\ fn = "none"
    /\ \E c \in CropIn, r1 \in BetweenRotationIn, r2 \in BetweenRotationIn :
        /\ fn' = "remapCropBetweenRotations"
        /\ args' = [crop |-> c, oldRotation |-> r1, newRotation |-> r2]
        /\ result' = remapCropBetweenRotations(c, r1, r2)
    /\ UNCHANGED <<pipelineVars, memoryVars, serviceVars>>

CallBuildCanonicalTransform ==
    /\ fn = "none"
    /\ \E d \in PageDimsIn, t \in TargetDimsIn, e \in EditIn \cup {Null} :
        /\ fn' = "buildCanonicalTransform"
        /\ args' = [originalDims |-> d, targetDims |-> t, editHistory |-> e]
        /\ result' = buildCanonicalTransform(d, t, e)
    /\ UNCHANGED <<pipelineVars, memoryVars, serviceVars>>

CallBuildGeometricTransform ==
    /\ fn = "none"
    /\ \E d \in OrigDimsIn, t \in TargetDimsIn, e \in GeometricEditIn \cup {Null} :
        /\ fn' = "buildGeometricTransform"
        /\ args' = [originalDims |-> d, targetDims |-> t, editHistory |-> e]
        /\ result' = buildGeometricTransform(d, t, e)
    /\ UNCHANGED <<pipelineVars, memoryVars, serviceVars>>

CallBuildAffineMatrix ==
    /\ fn = "none"
    /\ \E center \in AffineCenterIn, r \in AffineRotationIn, sc \in AffineScaleIn,
          ox \in AffineOffsetIn, oy \in AffineOffsetIn :
        /\ fn' = "buildAffineMatrix"
        /\ args' = [centerX |-> center.x, centerY |-> center.y, rotation |-> r,
                    scale |-> sc, offsetX |-> ox, offsetY |-> oy]
        /\ result' = buildAffineMatrix(center.x, center.y, r, sc, ox, oy)
    /\ UNCHANGED <<pipelineVars, memoryVars, serviceVars>>

CallValidateRecipe ==
    /\ fn = "none"
    /\ \E recipe \in RecipeIn :
        /\ fn' = "validateRecipe"
        /\ args' = [recipe |-> recipe]
        /\ result' = validateRecipe(recipe)
    /\ UNCHANGED <<pipelineVars, memoryVars, serviceVars>>

CallRenderPageToCanvas ==
    /\ fn = "none"
    /\ \E d \in OrigDimsIn, t \in TargetDimsIn, e \in EditIn :
        /\ fn' = "renderPageToCanvas"
        /\ args' = [originalDims |-> d, targetDims |-> t, editHistory |-> e]
        /\ result' = renderPageToCanvas(t, d, e)
    /\ UNCHANGED <<pipelineVars, memoryVars, serviceVars>>

Return ==
    /\ fn # "none"
    /\ fn' = "none"
    /\ args' = Null
    /\ result' = Null
    /\ UNCHANGED <<pipelineVars, memoryVars, serviceVars>>

Init ==
    /\ fn = "none"
    /\ args = Null
    /\ result = Null
    /\ pipeline = Null
    /\ cropSet = Null
    /\ manager = Null
    /\ frame = Null
    /\ recency = Null
    /\ previewCache = Null
    /\ rendering = Null
    /\ loader = Null
    /\ loops = Null
    /\ promises = Null
    /\ observed = Null

Next ==
    \/ CallNormalizeEditHistory
    \/ CallRemapCropForRotation
    \/ CallForwardMapCropToRotation
    \/ CallRemapCropBetweenRotations
    \/ CallBuildCanonicalTransform
    \/ CallBuildGeometricTransform
    \/ CallBuildAffineMatrix
    \/ CallValidateRecipe
    \/ CallRenderPageToCanvas
    \/ Return

Spec == Init /\ [][Next]_vars

----------------------------------------------------------------------------
(* TransformPipeline: one pipeline, its methods called in any order *)

PipelineCropIn == {ScenarioB, ScenarioC, ScenarioD, Tiny}
PipelineRotationIn == QuarterIn \cup {N(-90), N(450)}
PipelineScaleIn == {N(50), N(600)}

PipelineInit ==
    /\ fn = "none"
    /\ args = Null
    /\ result = Null
    /\ \E d \in OrigDimsIn, t \in TargetDimsIn : pipeline = NewTransformPipeline(d, t)
    /\ cropSet = Null
    /\ manager = Null
    /\ frame = Null
    /\ recency = Null
    /\ previewCache = Null
    /\ rendering = Null
    /\ loader = Null
    /\ loops = Null
    /\ promises = Null
    /\ observed = Null

CanPush == Len(pipeline.transforms) < MaxTransforms

setRotation ==
    /\ CanPush
    /\ \E degrees \in PipelineRotationIn : pipeline' = setRotationOn(pipeline, degrees)
    /\ UNCHANGED <<cropSet, geometryVars, memoryVars, serviceVars>>

setScale ==
    /\ CanPush
    /\ \E percentage \in PipelineScaleIn : pipeline' = setScaleOn(pipeline, percentage)
    /\ UNCHANGED <<cropSet, geometryVars, memoryVars, serviceVars>>

setOffset ==
    /\ CanPush
    /\ pipeline' = setOffsetOn(pipeline, N(10), N(-20))
    /\ UNCHANGED <<cropSet, geometryVars, memoryVars, serviceVars>>

setCrop ==
    /\ CanPush
    /\ \E cropArea \in PipelineCropIn \cup {Null} :
        /\ pipeline' = setCropOn(pipeline, cropArea)
        /\ cropSet' = IF cropArea = Null THEN Null
                      ELSE [area |-> cropArea,
                            sourceRect |-> getCanvasTransform(pipeline').sourceRect]
    /\ UNCHANGED <<geometryVars, memoryVars, serviceVars>>

reset ==
    /\ pipeline' = resetOn(pipeline)
    /\ cropSet' = Null
    /\ UNCHANGED <<geometryVars, memoryVars, serviceVars>>

PipelineNext ==
    \/ setRotation
    \/ setScale
    \/ setOffset
    \/ setCrop
    \/ reset

SpecPipeline == PipelineInit /\ [][PipelineNext]_vars

----------------------------------------------------------------------------
(* PDFMemoryManager: blob registry with one LRU list per quality tier *)

\* Date.now() timestamps are written but never read by the manager, and blob
\* URLs are only handed back; neither is part of the state here.

Tiers == {"ULTRA_LOW", "APPROPRIATE", "BEST"}

makePageKey(pageNumber, quality) == [page |-> pageNumber, quality |-> quality]
makeNupKey(pageNumbers) == [nup |-> pageNumbers]

\* options.x || dflt
OrInt(x, dflt) == IF x = 0 THEN dflt ELSE x

OptionsOf(maxUltraLowPages, maxAppropriatPages, maxBestPages, maxNupSheets) ==
    [maxUltraLowPages |-> maxUltraLowPages, maxAppropriatPages |-> maxAppropriatPages,
     maxBestPages |-> maxBestPages, maxNupSheets |-> maxNupSheets]

NewPDFMemoryManager(options) ==
    [options |-> OptionsOf(OrInt(options.maxUltraLowPages, 120),
                           OrInt(options.maxAppropriatPages, 80),
                           OrInt(options.maxBestPages, 12),
                           OrInt(options.maxNupSheets, 60)),
     blobRegistry |-> [k \in {} |-> Null],
     qualityLRU |-> [q \in Tiers |-> <<>>],
     nupLRU |-> <<>>,
     stats |-> [totalBlobsCreated |-> 0, totalBlobsRevoked |-> 0,
                totalMemoryAllocated |-> 0, totalMemoryFreed |-> 0,
                currentBlobCount |-> 0,
                evictions |-> [ULTRA_LOW |-> 0, APPROPRIATE |-> 0, BEST |-> 0, NUP |-> 0]],
     activeBlobSize |-> 0]

estimateBlobSize(type, quality) ==
    IF type = "page" /\ quality \in Tiers
    THEN CASE quality = "ULTRA_LOW" -> 5 * 1024
           [] quality = "APPROPRIATE" -> 30 * 1024
           [] quality = "BEST" -> 150 * 1024
    ELSE CASE type = "nup" -> 100 * 1024
           [] type = "preview" -> 300 * 1024
           [] OTHER -> 50 * 1024

getLimit(m, quality) ==
    OrInt(CASE quality = "ULTRA_LOW" -> m.options.maxUltraLowPages
            [] quality = "APPROPRIATE" -> m.options.maxAppropriatPages
            [] quality = "BEST" -> m.options.maxBestPages
            [] OTHER -> 0, 50)

hasBlob(m, pageKey) == pageKey \in DOMAIN m.blobRegistry

\* array.filter(item => item.pageKey !== pageKey): a new array
WithoutKey(lru, pageKey) == SelectSeq(lru, LAMBDA item : item.pageKey # pageKey)

\* The statistics and the registry after revokeBlob has found its entry.
RevokedEntry(m, pageKey, entry) ==
    [m EXCEPT !.stats.totalBlobsRevoked = @ + 1,
              !.stats.currentBlobCount = @ - 1,
              !.stats.totalMemoryFreed = @ + entry.size,
              !.activeBlobSize = @ - entry.size,
              !.blobRegistry = [k \in DOMAIN @ \ {pageKey} |-> @[k]]]

\* revokeBlob that leaves the LRU lists alone.
RemovedFromLRUNever(m, pageKey, entry) == m

\* Remove from LRU: the list of the entry's tier is replaced by a filtered
\* copy; an array taken from this.qualityLRU before keeps its items.
RemovedFromLRU(m, pageKey, entry) ==
    IF entry.type = "page"
    THEN [m EXCEPT !.qualityLRU[entry.quality] = WithoutKey(@, pageKey)]
    ELSE IF entry.type = "nup"
         THEN [m EXCEPT !.nupLRU = WithoutKey(@, pageKey)]
         ELSE m

\* The manager after revokeBlob(pageKey); URL.revokeObjectURL does not throw.
revokeBlobOn(m, pageKey) ==
    IF ~hasBlob(m, pageKey) THEN m
    ELSE RemovedFromLRU(RevokedEntry(m, pageKey, m.blobRegistry[pageKey]),
                        pageKey, m.blobRegistry[pageKey])

\* checkAndEvict, one quality tier: `lru` is the array taken before the loop,
\* so lru[0] is the same item in every iteration.
RECURSIVE evictTierLoop(_, _, _, _, _)
evictTierLoop(m, lru, quality, i, toEvict) ==
    IF i >= toEvict THEN m
    ELSE evictTierLoop([revokeBlobOn(m, lru[1].pageKey)
                           EXCEPT !.stats.evictions[quality] = @ + 1],
                       lru, quality, i + 1, toEvict)

\* evictTier that leaves a tier over its limit.
evictTierNever(m, quality) == m

evictTier(m, quality) ==
    IF Len(m.qualityLRU[quality]) > getLimit(m, quality)
    THEN evictTierLoop(m, m.qualityLRU[quality], quality, 0,
                       Len(m.qualityLRU[quality]) - getLimit(m, quality))
    ELSE m

\* checkAndEvict, the N-up list: this.nupLRU[0] is read anew in every
\* iteration.
RECURSIVE evictNupLoop(_, _, _)
evictNupLoop(m, i, toEvict) ==
    IF i >= toEvict THEN m
    ELSE IF Len(m.nupLRU) > 0
         THEN evictNupLoop([revokeBlobOn(m, m.nupLRU[1].pageKey)
                               EXCEPT !.stats.evictions.NUP = @ + 1],
                           i + 1, toEvict)
         ELSE evictNupLoop(m, i + 1, toEvict)

evictNup(m) ==
    IF Len(m.nupLRU) > m.options.maxNupSheets
    THEN evictNupLoop(m, 0, Len(m.nupLRU) - m.options.maxNupSheets)
    ELSE m

checkAndEvict(m) ==
    evictNup(evictTier(evictTier(evictTier(m, "ULTRA_LOW"), "APPROPRIATE"), "BEST"))

EntryOf(type, quality, size, pageKey) ==
    [type |-> type, quality |-> quality, size |-> size, pageKey |-> pageKey]

\* registerBlob from the entry on: registry, statistics and LRU list.
RegisteredEntry(m, entry) ==
    [m EXCEPT !.blobRegistry = [k \in DOMAIN @ \cup {entry.pageKey} |->
                                   IF k = entry.pageKey THEN entry ELSE @[k]],
              !.stats.totalBlobsCreated = @ + 1,
              !.stats.currentBlobCount = @ + 1,
              !.stats.totalMemoryAllocated = @ + entry.size,
              !.activeBlobSize = @ + entry.size,
              !.qualityLRU = IF entry.type = "page"
                             THEN [@ EXCEPT ![entry.quality] =
                                      Append(@, [pageKey |-> entry.pageKey])]
                             ELSE @,
              !.nupLRU = IF entry.type = "nup"
                         THEN Append(@, [pageKey |-> entry.pageKey]) ELSE @]

\* The manager after registerBlob(pageKey, blobUrl, {type, quality, size}).
registerBlobOn(m, pageKey, type, quality, size) ==
    checkAndEvict(
        RegisteredEntry(revokeBlobOn(m, pageKey),
                        EntryOf(type, quality,
                                OrInt(size, estimateBlobSize(type, quality)),
                                pageKey)))

\* lru.findIndex(item => item.pageKey === pageKey), counted from 1; 0 for -1.
FindIndex(lru, pageKey) ==
    IF \E i \in 1..Len(lru) : lru[i].pageKey = pageKey
    THEN CHOOSE i \in 1..Len(lru) :
            /\ lru[i].pageKey = pageKey
            /\ \A j \in 1..(i - 1) : lru[j].pageKey # pageKey
    ELSE 0

\* lru.splice(index, 1); lru.push({ pageKey, timestamp })
MovedToEnd(lru, index, pageKey) ==
    IF index = 0 THEN lru
    ELSE Append(SubSeq(lru, 1, index - 1) \o SubSeq(lru, index + 1, Len(lru)),
                [pageKey |-> pageKey])

\* touchBlob that leaves the LRU list as it is.
TouchedEntryNoMove(m, pageKey, entry) == m

TouchedEntry(m, pageKey, entry) ==
    IF entry.type = "page"
    THEN [m EXCEPT !.qualityLRU[entry.quality] =
                      MovedToEnd(@, FindIndex(@, pageKey), pageKey)]
    ELSE IF entry.type = "nup"
         THEN [m EXCEPT !.nupLRU = MovedToEnd(@, FindIndex(@, pageKey), pageKey)]
         ELSE m

touchBlobOn(m, pageKey) ==
    IF ~hasBlob(m, pageKey) THEN m
    ELSE TouchedEntry(m, pageKey, m.blobRegistry[pageKey])

upgradeQualityOn(m, pageNumber, oldQuality, newQuality, size) ==
    registerBlobOn(revokeBlobOn(m, makePageKey(pageNumber, oldQuality)),
                   makePageKey(pageNumber, newQuality), "page", newQuality, size)

\* urls.forEach(key => this.revokeBlob(key))
RECURSIVE revokeEach(_, _)
revokeEach(m, keys) ==
    IF keys = {} THEN m
    ELSE revokeEach(revokeBlobOn(m, CHOOSE k \in keys : TRUE),
                    keys \ {CHOOSE k \in keys : TRUE})

clearOn(m) ==
    [revokeEach(m, DOMAIN m.blobRegistry)
        EXCEPT !.blobRegistry = [k \in {} |-> Null],
               !.qualityLRU = [q \in Tiers |-> <<>>],
               !.nupLRU = <<>>]

\* Small limits, so that every tier and the N-up list can overflow.
MemoryOptionsIn == {OptionsOf(2, 1, 1, 1)}

MaxPageNumber == 3
MaxBlobsCreated == 4

PageKeyIn == {makePageKey(n, q) : n \in 1..MaxPageNumber, q \in Tiers}
NupKeyIn == {makeNupKey(<<1, 2>>), makeNupKey(<<2, 3>>)}
MemoryKeyIn == PageKeyIn \cup NupKeyIn

\* Registrations: pages under the quality their key names, N-up sheets (the
\* quality defaults to ULTRA_LOW), and a preview, which no LRU list tracks.
RegisterIn ==
    {[pageKey |-> makePageKey(n, q), type |-> "page", quality |-> q, size |-> 0] :
        n \in 1..MaxPageNumber, q \in Tiers}
    \cup {[pageKey |-> k, type |-> "nup", quality |-> "ULTRA_LOW", size |-> 2048] :
             k \in NupKeyIn}
    \cup {[pageKey |-> makePageKey(1, "BEST"), type |-> "preview",
           quality |-> "BEST", size |-> 0]}

\* The history of uses: `Used` moves a key to the newest place, `Kept` drops
\* the keys that are no longer registered.
Kept(keys, m) == SelectSeq(keys, LAMBDA k : hasBlob(m, k))
Used(keys, pageKey) == Append(SelectSeq(keys, LAMBDA k : k # pageKey), pageKey)

Idle == fn = "none"
CanRegister == manager.stats.totalBlobsCreated < MaxBlobsCreated
Returned(value) == [value |-> value]
Void == [void |-> TRUE]

registerBlob ==
    /\ Idle /\ CanRegister
    /\ \E r \in RegisterIn :
        /\ fn' = "registerBlob"
        /\ args' = r
        /\ manager' = registerBlobOn(manager, r.pageKey, r.type, r.quality, r.size)
        /\ result' = Void
        /\ recency' = Kept(Used(recency, r.pageKey), manager')
    /\ UNCHANGED <<frame, pipelineVars, serviceVars>>

revokeBlob ==
    /\ Idle
    /\ \E k \in MemoryKeyIn :
        /\ fn' = "revokeBlob"
        /\ args' = [pageKey |-> k]
        /\ manager' = revokeBlobOn(manager, k)
        /\ result' = Returned(hasBlob(manager, k))
        /\ recency' = Kept(recency, manager')
    /\ UNCHANGED <<frame, pipelineVars, serviceVars>>

touchBlob ==
    /\ Idle
    /\ \E k \in MemoryKeyIn :
        /\ fn' = "touchBlob"
        /\ args' = [pageKey |-> k]
        /\ manager' = touchBlobOn(manager, k)
        /\ result' = Void
        /\ recency' = IF hasBlob(manager, k) THEN Used(recency, k) ELSE recency
    /\ UNCHANGED <<frame, pipelineVars, serviceVars>>

getBlob ==
    /\ Idle
    /\ \E k \in MemoryKeyIn :
        /\ fn' = "getBlob"
        /\ args' = [pageKey |-> k]
        /\ manager' = touchBlobOn(manager, k)
        /\ result' = Returned(hasBlob(manager, k))
        /\ recency' = IF hasBlob(manager, k) THEN Used(recency, k) ELSE recency
    /\ UNCHANGED <<frame, pipelineVars, serviceVars>>

upgradeQuality ==
    /\ Idle /\ CanRegister
    /\ \E n \in 1..MaxPageNumber, old \in Tiers, new \in Tiers :
        /\ old # new
        /\ fn' = "upgradeQuality"
        /\ args' = [pageNumber |-> n, oldQuality |-> old, newQuality |-> new]
        /\ manager' = upgradeQualityOn(manager, n, old, new, 0)
        /\ result' = Void
        /\ recency' = Kept(Used(recency, makePageKey(n, new)), manager')
    /\ UNCHANGED <<frame, pipelineVars, serviceVars>>

\* revokeQualityTier up to its loop: const lru = this.qualityLRU[quality];
\* const count = lru.length
revokeQualityTier ==
    /\ Idle
    /\ \E q \in Tiers :
        /\ fn' = "revokeQualityTier"
        /\ args' = [quality |-> q]
        /\ frame' = [lru |-> manager.qualityLRU[q], count |-> Len(manager.qualityLRU[q])]
    /\ UNCHANGED <<result, manager, recency, pipelineVars, serviceVars>>

\* One iteration of while (lru.length > 0): revokeBlob(lru[0].pageKey).
\* revokeBlob replaces this.qualityLRU[quality]; `lru` is not that array any
\* more and keeps its items.
revokeQualityTierLoop ==
    /\ fn = "revokeQualityTier" /\ frame # Null
    /\ Len(frame.lru) > 0
    /\ manager' = revokeBlobOn(manager, frame.lru[1].pageKey)
    /\ recency' = Kept(recency, manager')
    /\ UNCHANGED <<fn, args, result, frame, pipelineVars, serviceVars>>

revokeQualityTierReturn ==
    /\ fn = "revokeQualityTier" /\ frame # Null
    /\ Len(frame.lru) = 0
    /\ result' = Returned(frame.count)
    /\ frame' = Null
    /\ UNCHANGED <<fn, args, manager, recency, pipelineVars, serviceVars>>

\* revokeAllNup up to its loop: const count = this.nupLRU.length
revokeAllNup ==
    /\ Idle
    /\ fn' = "revokeAllNup"
    /\ args' = Null
    /\ frame' = [count |-> Len(manager.nupLRU)]
    /\ UNCHANGED <<result, manager, recency, pipelineVars, serviceVars>>

\* One iteration of while (this.nupLRU.length > 0)
revokeAllNupLoop ==
    /\ fn = "revokeAllNup" /\ frame # Null
    /\ Len(manager.nupLRU) > 0
    /\ manager' = revokeBlobOn(manager, manager.nupLRU[1].pageKey)
    /\ recency' = Kept(recency, manager')
    /\ UNCHANGED <<fn, args, result, frame, pipelineVars, serviceVars>>

revokeAllNupReturn ==
    /\ fn = "revokeAllNup" /\ frame # Null
    /\ Len(manager.nupLRU) = 0
    /\ result' = Returned(frame.count)
    /\ frame' = Null
    /\ UNCHANGED <<fn, args, manager, recency, pipelineVars, serviceVars>>

clear ==
    /\ Idle
    /\ fn' = "clear"
    /\ args' = Null
    /\ manager' = clearOn(manager)
    /\ result' = Void
    /\ recency' = Kept(recency, manager')
    /\ UNCHANGED <<frame, pipelineVars, serviceVars>>

\* The caller takes the returned value; the manager is idle again.
MemoryReturn ==
    /\ fn # "none" /\ frame = Null /\ result # Null
    /\ fn' = "none"
    /\ args' = Null
    /\ result' = Null
    /\ UNCHANGED <<manager, frame, recency, pipelineVars, serviceVars>>

MemoryInit ==
    /\ fn = "none"
    /\ args = Null
    /\ result = Null
    /\ pipeline = Null
    /\ cropSet = Null
    /\ \E options \in MemoryOptionsIn : manager = NewPDFMemoryManager(options)
    /\ frame = Null
    /\ recency = <<>>
    /\ previewCache = Null
    /\ rendering = Null
    /\ loader = Null
    /\ loops = Null
    /\ promises = Null
    /\ observed = Null

MemoryNext ==
    \/ registerBlob
    \/ revokeBlob
    \/ touchBlob
    \/ getBlob
    \/ upgradeQuality
    \/ revokeQualityTier
    \/ revokeQualityTierLoop
    \/ revokeQualityTierReturn
    \/ revokeAllNup
    \/ revokeAllNupLoop
    \/ revokeAllNupReturn
    \/ clear
    \/ MemoryReturn

SpecMemory == MemoryInit /\ [][MemoryNext]_vars

\* A method that has been called runs on: JavaScript runs it to completion
\* before anything else.
SpecMemoryLive ==
    /\ SpecMemory
    /\ WF_vars(revokeQualityTierLoop)
    /\ WF_vars(revokeQualityTierReturn)
    /\ WF_vars(revokeAllNupLoop)
    /\ WF_vars(revokeAllNupReturn)

----------------------------------------------------------------------------
(* C1: once an in-bounds crop has been set with setCrop, after any sequence
   of setRotation calls with multiples of 90 degrees the sourceRect of
   getCanvasTransform() equals the sourceRect right after setCrop. *)
C1_CropKeepsSourceRect ==
    (pipeline # Null /\ cropSet # Null /\ InBounds(cropSet.area))
        => getCanvasTransform(pipeline).sourceRect = cropSet.sourceRect

----------------------------------------------------------------------------
(* PagePreviewService (getPreview, getCacheKey, addToCache, clearPageCache) *)

\* A JavaScript string is the sequence of its characters.
DigitChars == <<"0", "1", "2", "3", "4", "5", "6", "7", "8", "9">>

\* String(n) of a natural number: its decimal digits.
RECURSIVE NumberString(_)
NumberString(n) ==
    IF n < 10 THEN <<DigitChars[n + 1]>>
    ELSE Append(NumberString(n \div 10), DigitChars[(n % 10) + 1])

\* key.includes(part)
Includes(key, part) ==
    \E i \in 1..(Len(key) - Len(part) + 1) :
        SubSeq(key, i, i + Len(part) - 1) = part

\* The transforms the service reads: crop, rotation and scale.
TransformsOfPage(rotation, scale) == [crop |-> Null, rotation |-> rotation, scale |-> scale]

\* JSON.stringify(transforms) of a page without crop.
TransformsString(transforms) ==
    <<"{", "\"", "c", "r", "o", "p", "\"", ":", "n", "u", "l", "l", ",", "\"", "r", "o", "t", "a", "t", "i", "o", "n", "\"", ":">> \o NumberString(transforms.rotation)
        \o <<",", "\"", "s", "c", "a", "l", "e", "\"", ":">> \o NumberString(transforms.scale) \o <<"}">>

\* JSON.stringify({ page, transforms, width: Math.round(width),
\* height: Math.round(height) }), for whole widths and heights.
getCacheKey(pageNumber, transforms, width, height) ==
    <<"{", "\"", "p", "a", "g", "e", "\"", ":">> \o NumberString(pageNumber)
        \o <<",", "\"", "t", "r", "a", "n", "s", "f", "o", "r", "m", "s", "\"", ":">> \o TransformsString(transforms)
        \o <<",", "\"", "w", "i", "d", "t", "h", "\"", ":">> \o NumberString(width)
        \o <<",", "\"", "h", "e", "i", "g", "h", "t", "\"", ":">> \o NumberString(height) \o <<"}">>

maxCacheSize == 20

\* The canvas getPreview renders: what it shows.
CanvasOf(pageNumber, transforms, width, height) ==
    [page |-> pageNumber, transforms |-> transforms, width |-> width, height |-> height]

CacheHas(cache, key) == \E i \in 1..Len(cache) : cache[i].key = key
CacheGet(cache, key) == (CHOOSE i \in 1..Len(cache) : cache[i].key = key)

\* Map.set: a new key goes to the end, a key that is present keeps its place.
CacheSet(cache, key, canvas) ==
    IF CacheHas(cache, key)
    THEN [i \in 1..Len(cache) |->
             IF cache[i].key = key THEN [key |-> key, canvas |-> canvas] ELSE cache[i]]
    ELSE Append(cache, [key |-> key, canvas |-> canvas])

\* addToCache: a full cache loses the entry that was inserted first.
addToCache(cache, key, canvas) ==
    CacheSet(IF Len(cache) >= maxCacheSize THEN Tail(cache) ELSE cache, key, canvas)

\* The keys clearPageCache collects: those that include "page":<pageNumber>.
KeysToDelete(cache, pageNumber) ==
    {cache[i].key : i \in {j \in 1..Len(cache) :
        Includes(cache[j].key, <<"\"", "p", "a", "g", "e", "\"", ":">> \o NumberString(pageNumber))}}

clearPageCacheOn(cache, pageNumber) ==
    SelectSeq(cache, LAMBDA entry : entry.key \notin KeysToDelete(cache, pageNumber))

\* Inputs: the pages 1, 2, 10 and 12 under two transforms in one container;
\* at most MaxCached previews are cached and MaxRendering renders wait.
PreviewPageIn == {1, 2, 10, 12}
PreviewTransformsIn == {TransformsOfPage(0, 100), TransformsOfPage(90, 100)}
ContainerIn == [width |-> 800, height |-> 600]
MaxCached == 3
MaxRendering == 2

\* getPreview up to its await: a cached canvas is returned at once; otherwise
\* the call waits for documentLoader.renderPageToCanvas. The transforms are
\* those the metadata store holds for the page at the time of the call.
getPreview ==
    /\ Idle
    /\ \E n \in PreviewPageIn, t \in PreviewTransformsIn :
        LET key == getCacheKey(n, t, ContainerIn.width, ContainerIn.height)
            call == [pageNumber |-> n, transforms |-> t, cacheKey |-> key]
        IN  IF CacheHas(previewCache, key)
            THEN /\ fn' = "getPreview"
                 /\ args' = [pageNumber |-> n]
                 /\ result' = Returned(previewCache[CacheGet(previewCache, key)].canvas)
                 /\ UNCHANGED previewVars
            ELSE /\ Cardinality(rendering) < MaxRendering
                 /\ Len(previewCache) + Cardinality(rendering) < MaxCached
                 /\ call \notin rendering
                 /\ rendering' = rendering \cup {call}
                 /\ UNCHANGED <<previewCache, geometryVars>>
    /\ UNCHANGED <<pipelineVars, memoryVars, loaderVars>>

\* getPreview after its await: the transformed canvas is cached and returned.
getPreviewRendered ==
    /\ Idle
    /\ \E call \in rendering :
        LET canvas == CanvasOf(call.pageNumber, call.transforms,
                               ContainerIn.width, ContainerIn.height)
        IN  /\ previewCache' = addToCache(previewCache, call.cacheKey, canvas)
            /\ rendering' = rendering \ {call}
            /\ fn' = "getPreview"
            /\ args' = [pageNumber |-> call.pageNumber]
            /\ result' = Returned(canvas)
    /\ UNCHANGED <<pipelineVars, memoryVars, loaderVars>>

clearPageCache ==
    /\ Idle
    /\ \E n \in PreviewPageIn :
        /\ previewCache' = clearPageCacheOn(previewCache, n)
        /\ fn' = "clearPageCache"
        /\ args' = [pageNumber |-> n]
        /\ result' = Void
    /\ UNCHANGED <<rendering, pipelineVars, memoryVars, loaderVars>>

clearCache ==
    /\ Idle
    /\ previewCache' = <<>>
    /\ fn' = "clearCache"
    /\ args' = Null
    /\ result' = Void
    /\ UNCHANGED <<rendering, pipelineVars, memoryVars, loaderVars>>

PreviewReturn ==
    /\ fn # "none"
    /\ fn' = "none"
    /\ args' = Null
    /\ result' = Null
    /\ UNCHANGED <<previewVars, pipelineVars, memoryVars, loaderVars>>

PreviewInit ==
    /\ fn = "none"
    /\ args = Null
    /\ result = Null
    /\ pipeline = Null
    /\ cropSet = Null
    /\ manager = Null
    /\ frame = Null
    /\ recency = Null
    /\ previewCache = <<>>
    /\ rendering = {}
    /\ loader = Null
    /\ loops = Null
    /\ promises = Null
    /\ observed = Null

PreviewNext ==
    \/ getPreview
    \/ getPreviewRendered
    \/ clearPageCache
    \/ clearCache
    \/ PreviewReturn

SpecPreview == PreviewInit /\ [][PreviewNext]_vars

----------------------------------------------------------------------------
(* SequentialPageLoader and PDFLoaderAdapter.loadPagesSequentially *)

Range(seq) == {seq[j] : j \in 1..Len(seq)}

RemoveAt(seq, k) == SubSeq(seq, 1, k - 1) \o SubSeq(seq, k + 1, Len(seq))

\* The fields of the loader that take part in loading; delays and load times
\* are not modelled.
NewSequentialPageLoader(options) ==
    [options |-> [pagesPerMicroBatch |-> OrInt(options.pagesPerMicroBatch, 2)],
     isLoading |-> FALSE,
     queue |-> <<>>,
     loadingPages |-> {},
     loadedPages |-> {},
     aborted |-> FALSE,
     stats |-> [totalPagesRequested |-> 0, totalPagesLoaded |-> 0,
                totalBatchesProcessed |-> 0]]

\* A job of the queue: its pages and the promise its onBatchComplete resolves
\* (renderFunction and the callbacks are those of loadPagesSequentially).
JobOf(pages, id) == [pages |-> pages, id |-> id]

\* A processQueue call in processJob(job): i is the index of the for loop,
\* inFlight the pages whose renderFunction has not settled, results the pages
\* of the micro-batch that rendered, pc where the call is waiting ("renders":
\* await Promise.all, "delay": await this.delay).
ActivationOf(job) ==
    [job |-> job, i |-> 0, inFlight |-> {}, results |-> {}, loadedInJob |-> <<>>,
     pc |-> "renders"]

\* The loader with the calls in progress, the promises and the history.
LoaderStateOf(l, calls, ps, obs) ==
    [loader |-> l, loops |-> calls, promises |-> ps, observed |-> obs]

\* pages.slice(i, i + microBatchSize)
MicroBatchOf(pages, i, size) ==
    SubSeq(pages, i + 1, IF i + size < Len(pages) THEN i + size ELSE Len(pages))

\* The body of the for loop up to its await: the micro-batch is marked as
\* loading and renderFunction is called for each of its pages.
BeginBatch(st, k) ==
    LET batch == Range(MicroBatchOf(st.loops[k].job.pages, st.loops[k].i,
                                    st.loader.options.pagesPerMicroBatch))
    IN  [st EXCEPT !.loader.loadingPages = @ \cup batch,
                   !.loops[k].inFlight = batch,
                   !.loops[k].results = {},
                   !.loops[k].pc = "renders",
                   !.observed.started =
                       [p \in DOMAIN @ |-> IF p \in batch THEN @[p] + 1 ELSE @[p]],
                   !.observed.late = @ \cup (batch \cap st.observed.cancelled)]

\* processQueue leaves its while loop and returns.
ExitLoop(st, k) ==
    [st EXCEPT !.loader.isLoading = FALSE,
               !.loops = RemoveAt(@, k)]

\* The while loop of processQueue goes on with the next job, if there is one
\* and the loader is not aborted.
NextJob(st, k) ==
    IF Len(st.loader.queue) > 0 /\ ~st.loader.aborted
    THEN BeginBatch([st EXCEPT !.loader.queue = Tail(@),
                               !.loops[k] = ActivationOf(Head(st.loader.queue))], k)
    ELSE ExitLoop(st, k)

\* The end of processJob: onBatchComplete resolves the promise of the job.
CompleteJob(st, k) ==
    NextJob([st EXCEPT !.promises[st.loops[k].job.id] = "resolved"], k)

\* The for loop after the delay: i += microBatchSize, and the next
\* micro-batch unless the loader is aborted.
ContinueJob(st, k) ==
    IF st.loader.aborted
    THEN CompleteJob([st EXCEPT !.loops[k].i = @ + st.loader.options.pagesPerMicroBatch], k)
    ELSE BeginBatch([st EXCEPT !.loops[k].i = @ + st.loader.options.pagesPerMicroBatch], k)

\* After await Promise.all: the results are added to loadedInJob in the order
\* of the micro-batch; a delay follows when pages are left, the end of the
\* job otherwise.
BatchSettled(st, k) ==
    LET loop == st.loops[k]
        size == st.loader.options.pagesPerMicroBatch
        valid == SelectSeq(MicroBatchOf(loop.job.pages, loop.i, size),
                           LAMBDA p : p \in loop.results)
        counted == [st EXCEPT !.loops[k].loadedInJob = @ \o valid,
                              !.loader.stats.totalBatchesProcessed = @ + 1]
    IN  IF loop.i + size < Len(loop.job.pages)
        THEN [counted EXCEPT !.loops[k].pc = "delay"]
        ELSE CompleteJob(counted, k)

\* The callback of microBatch.map after await renderFunction(pageNum): the
\* page leaves loadingPages and, rendered, joins loadedPages. Promise.all
\* settles with the last of them, in the same turn of the event loop.
RenderSettled(st, k, pageNum, ok) ==
    IF st.loops[k].inFlight = {pageNum}
    THEN BatchSettled(
            [st EXCEPT !.loader.loadingPages = @ \ {pageNum},
                       !.loader.loadedPages = IF ok THEN @ \cup {pageNum} ELSE @,
                       !.loader.stats.totalPagesLoaded = IF ok THEN @ + 1 ELSE @,
                       !.loops[k].inFlight = {},
                       !.loops[k].results = IF ok THEN @ \cup {pageNum} ELSE @,
                       !.observed.failures = @ \/ ~ok], k)
    ELSE [st EXCEPT !.loader.loadingPages = @ \ {pageNum},
                    !.loader.loadedPages = IF ok THEN @ \cup {pageNum} ELSE @,
                    !.loader.stats.totalPagesLoaded = IF ok THEN @ + 1 ELSE @,
                    !.loops[k].inFlight = @ \ {pageNum},
                    !.loops[k].results = IF ok THEN @ \cup {pageNum} ELSE @,
                    !.observed.failures = @ \/ ~ok]

\* processQueue up to its first await.
processQueue(st) ==
    IF st.loader.isLoading \/ Len(st.loader.queue) = 0 \/ st.loader.aborted
    THEN st
    ELSE BeginBatch([st EXCEPT !.loader.isLoading = TRUE,
                               !.loader.queue = Tail(@),
                               !.loops = Append(@, ActivationOf(Head(st.loader.queue)))],
                    Len(st.loops) + 1)

\* pageNumbers.filter(num => !loadedPages.has(num) && !loadingPages.has(num))
NewPages(l, pageNumbers) ==
    SelectSeq(pageNumbers,
              LAMBDA num : num \notin l.loadedPages /\ num \notin l.loadingPages)

Queued(st, newPages, id) ==
    [st EXCEPT !.loader.queue = Append(@, JobOf(newPages, id)),
               !.loader.stats.totalPagesRequested = @ + Len(newPages),
               !.observed.cancelled = @ \ Range(newPages)]

queuePages(st, pageNumbers, id) ==
    IF Len(NewPages(st.loader, pageNumbers)) = 0 THEN st
    ELSE IF st.loader.isLoading
         THEN Queued(st, NewPages(st.loader, pageNumbers), id)
         ELSE processQueue(Queued(st, NewPages(st.loader, pageNumbers), id))

\* The pages that are queued and whose renderFunction has not been called:
\* those of the jobs in the queue and those of the later micro-batches of the
\* jobs in progress.
PendingPages(st) ==
    UNION {Range(st.loader.queue[j].pages) : j \in 1..Len(st.loader.queue)}
    \cup UNION {Range(SubSeq(st.loops[k].job.pages,
                             st.loops[k].i + st.loader.options.pagesPerMicroBatch + 1,
                             Len(st.loops[k].job.pages))) : k \in 1..Len(st.loops)}

abortOn(st) ==
    [st EXCEPT !.loader.aborted = TRUE,
               !.loader.queue = <<>>,
               !.loader.loadingPages = {},
               !.observed.cancelled = @ \cup PendingPages(st),
               !.observed.aborts = TRUE]

clearLoaderOn(st) ==
    [abortOn(st) EXCEPT !.loader.loadedPages = {},
                        !.loader.isLoading = FALSE,
                        !.observed.clears = TRUE]

\* Inputs: the pages 1..MaxLoaderPage in lists without repetition, at most
\* MaxRequests calls of loadPagesSequentially, the default micro-batch size.
MaxLoaderPage == 3
MaxRequests == 2
LoaderOptionsIn == {[pagesPerMicroBatch |-> 0]}
PageListIn == {<<1>>, <<MaxLoaderPage>>, <<1, 2>>, <<2, MaxLoaderPage>>,
               <<1, 2, MaxLoaderPage>>}

LoaderState == LoaderStateOf(loader, loops, promises, observed)

Becomes(st) ==
    /\ loader' = st.loader
    /\ loops' = st.loops
    /\ promises' = st.promises
    /\ observed' = st.observed

\* loadPagesSequentially with the sequential loader enabled: a new promise,
\* and queuePages with the callbacks that resolve it.
loadPagesSequentially ==
    /\ Len(promises) < MaxRequests
    /\ \E pageNumbers \in PageListIn :
        Becomes(queuePages(LoaderStateOf(loader, loops, Append(promises, "pending"),
                                         observed),
                           pageNumbers, Len(promises) + 1))
    /\ UNCHANGED <<geometryVars, pipelineVars, memoryVars, previewVars>>

\* A renderFunction call settles, with a result or with an error.
renderSettles ==
    /\ \E k \in 1..Len(loops) : \E pageNum \in loops[k].inFlight : \E ok \in BOOLEAN :
        Becomes(RenderSettled(LoaderState, k, pageNum, ok))
    /\ UNCHANGED <<geometryVars, pipelineVars, memoryVars, previewVars>>

\* The delay between two micro-batches elapses.
delayElapses ==
    /\ \E k \in 1..Len(loops) :
        /\ loops[k].pc = "delay"
        /\ Becomes(ContinueJob(LoaderState, k))
    /\ UNCHANGED <<geometryVars, pipelineVars, memoryVars, previewVars>>

abort ==
    /\ Becomes(abortOn(LoaderState))
    /\ UNCHANGED <<geometryVars, pipelineVars, memoryVars, previewVars>>

resume ==
    /\ loader' = [loader EXCEPT !.aborted = FALSE]
    /\ UNCHANGED <<loops, promises, observed>>
    /\ UNCHANGED <<geometryVars, pipelineVars, memoryVars, previewVars>>

clearLoader ==
    /\ Becomes(clearLoaderOn(LoaderState))
    /\ UNCHANGED <<geometryVars, pipelineVars, memoryVars, previewVars>>

LoaderInit ==
    /\ fn = "none"
    /\ args = Null
    /\ result = Null
    /\ pipeline = Null
    /\ cropSet = Null
    /\ manager = Null
    /\ frame = Null
    /\ recency = Null
    /\ previewCache = Null
    /\ rendering = Null
    /\ \E options \in LoaderOptionsIn : loader = NewSequentialPageLoader(options)
    /\ loops = <<>>
    /\ promises = <<>>
    /\ observed = [started |-> [p \in 1..MaxLoaderPage |-> 0],
                   cancelled |-> {}, late |-> {},
                   aborts |-> FALSE, clears |-> FALSE, failures |-> FALSE]

LoaderNext ==
    \/ loadPagesSequentially
    \/ renderSettles
    \/ delayElapses
    \/ abort
    \/ resume
    \/ clearLoader

SpecLoader == LoaderInit /\ [][LoaderNext]_vars

\* Every renderFunction call that was started settles, and every delay
\* elapses.
SpecLoaderLive ==
    /\ SpecLoader
    /\ WF_vars(renderSettles)
    /\ WF_vars(delayElapses)

----------------------------------------------------------------------------
(* Claims about the geometry functions, checked under Spec *)

IsRemapCall == fn \in {"remapCropForRotation", "forwardMapCropToRotation"}

Clamp(v, lo, hi) == Max(lo, Min(hi, v))

\* The value of a rotation in [0, 360), when the rotation is a whole number
\* of degrees.
Mod360(rotation) == rotation.n % 360

(* C2: normalizeEditHistory is idempotent: normalizing a normalized edit
   again, under the same dimensions, returns it unchanged field by field. *)
C2_NormalizeIdempotent ==
    fn = "normalizeEditHistory"
        => normalizeEditHistory(args.originalDims, result) = result

(* C3: for the quarter turns and in-bounds crops, forwardMapCropToRotation
   undoes remapCropForRotation and remapCropForRotation undoes
   forwardMapCropToRotation, so remapping a crop from r1 to r2 and back from
   r2 to r1 returns the crop. *)
C3_RoundTrip ==
    /\ (fn = "forwardMapCropToRotation" /\ args.rotation \in QuarterIn
            /\ InBounds(args.crop))
          => remapCropForRotation(result, args.rotation) = args.crop
    /\ (fn = "remapCropForRotation" /\ args.rotation \in QuarterIn
            /\ InBounds(args.crop))
          => forwardMapCropToRotation(result, args.rotation) = args.crop
    /\ (fn = "remapCropBetweenRotations" /\ args.oldRotation \in QuarterIn
            /\ args.newRotation \in QuarterIn /\ InBounds(args.crop))
          => remapCropBetweenRotations(result, args.newRotation, args.oldRotation)
                = args.crop

C3_Witness ==
    /\ fn = "remapCropBetweenRotations"
    /\ args = [crop |-> ScenarioB, oldRotation |-> N(90), newRotation |-> N(180)]
    /\ result # ScenarioB

(* C4: the result of normalizeEditHistory is bounded: a crop lies in the unit
   square with sides of at least 0.01, rotation in [-180, 180], scale in
   [10, 500], each offset within half the page dimension. *)
C4_NormalizedBounds ==
    fn = "normalizeEditHistory" =>
        /\ result.cropArea # Null =>
              /\ Ge(result.cropArea.x, Zero) /\ Le(result.cropArea.x, One)
              /\ Ge(result.cropArea.y, Zero) /\ Le(result.cropArea.y, One)
              /\ Ge(result.cropArea.width, Q(1, 100)) /\ Le(result.cropArea.width, One)
              /\ Ge(result.cropArea.height, Q(1, 100)) /\ Le(result.cropArea.height, One)
              /\ Le(Add(result.cropArea.x, result.cropArea.width), One)
              /\ Le(Add(result.cropArea.y, result.cropArea.height), One)
        /\ Ge(result.rotation, N(-180)) /\ Le(result.rotation, N(180))
        /\ Ge(result.scale, N(10)) /\ Le(result.scale, N(500))
        /\ Le(AbsQ(result.offsetX), Div(args.originalDims.width, N(2)))
        /\ Le(AbsQ(result.offsetY), Div(args.originalDims.height, N(2)))

C4_Witness ==
    /\ fn = "normalizeEditHistory"
    /\ args.editHistory = ExtremeEdit
    /\ result.scale = N(500)
    /\ result.cropArea = CropOf(Zero, Zero, One, Q(1, 100))

(* C5: for an in-bounds crop and a rotation of 0, 90, 180 or 270 degrees, the
   source rectangle the preview renderer samples equals the sourceRect of
   buildCanonicalTransform for the same page and edit. *)
C5_PreviewSamplesCanonicalSourceRect ==
    (fn = "renderPageToCanvas" /\ args.editHistory.cropArea # Null
        /\ InBounds(args.editHistory.cropArea)
        /\ args.editHistory.rotation \in QuarterIn)
      => result.sourceRect
            = buildCanonicalTransform(args.originalDims, args.targetDims,
                                      args.editHistory).sourceRect

C7_NoAutoFitWithoutRotation ==
    fn = "buildCanonicalTransform" =>
        /\ normalizeRotationField(EditOrDefaults(args.editHistory).rotation) = Zero =>
              /\ result.scaleToFit = One
              /\ result.finalScale
                    = Div(normalizeEditHistory(args.originalDims, args.editHistory).scale,
                          N(100))
              /\ result.drawWidth = Mul(result.sourceRect.width, result.finalScale)
              /\ result.drawHeight = Mul(result.sourceRect.height, result.finalScale)
        /\ (args.originalDims = A4
                /\ args.editHistory = EditOf(ScenarioC, Zero, N(100), Zero, Zero)) =>
              /\ result.scaleToFit = One
              /\ result.sourceRect = CropOf(Zero, Zero, Q(595, 2), N(421))
              /\ result.drawWidth = Q(595, 2)

C7_Witness ==
    /\ fn = "buildCanonicalTransform"
    /\ args.editHistory = EditOf(ScenarioB, N(360), N(250), Zero, Zero)
    /\ args.originalDims # args.targetDims
    /\ result.finalScale = Q(5, 2)

(* C8: when the rotation of the edit is 90, 180 or 270 modulo 360,
   scaleToFit = 0.9 * min(target.width / bw, target.height / bh), where
   (bw, bh) is the sourceRect with width and height exchanged for 90 and 270
   and as it is for 180; at scale 100 the rotated content's bounding box is at
   most 90% of the target in both dimensions and exactly 90% in one. *)
C8_FitsRotatedBoundingBox ==
    (fn = "buildCanonicalTransform" /\ args.editHistory # Null
        /\ args.editHistory.rotation.d = 1
        /\ Mod360(args.editHistory.rotation) \in {90, 180, 270}) =>
        LET swapped == Mod360(args.editHistory.rotation) \in {90, 270}
            bw == IF swapped THEN result.sourceRect.height ELSE result.sourceRect.width
            bh == IF swapped THEN result.sourceRect.width ELSE result.sourceRect.height
            maxW == Mul(Q(9, 10), args.targetDims.width)
            maxH == Mul(Q(9, 10), args.targetDims.height)
        IN  /\ result.scaleToFit
                  = Mul(Q(9, 10), Min(Div(args.targetDims.width, bw),
                                      Div(args.targetDims.height, bh)))
            /\ normalizeScale(args.editHistory.scale) = N(100) =>
                  /\ Le(Mul(bw, result.finalScale), maxW)
                  /\ Le(Mul(bh, result.finalScale), maxH)
                  /\ \/ Mul(bw, result.finalScale) = maxW
                     \/ Mul(bh, result.finalScale) = maxH
            /\ (args.originalDims = A4 /\ args.targetDims = A4
                    /\ args.editHistory = EditOf(Null, N(90), N(100), Zero, Zero)) =>
                  /\ result.scaleToFit = Q(9 * 595, 10 * 842)
                  /\ result.finalScale = result.scaleToFit

C8_Witness ==
    /\ fn = "buildCanonicalTransform"
    /\ args = [originalDims |-> A4, targetDims |-> A4,
               editHistory |-> EditOf(Null, N(90), N(100), Zero, Zero)]
    /\ result.scaleToFit = Q(9 * 595, 10 * 842)
    /\ result.drawWidth = Mul(N(595), Q(9 * 595, 10 * 842))

(* C9: remapCropForRotation maps a visual-space crop {x, y, w, h} to
   0: {x, y, w, h}; 90: {1-(y+h), x, h, w}; 180: {1-(x+w), 1-(y+h), w, h};
   270: {y, 1-(x+w), h, w}; rotations congruent modulo 360 map alike; and
   {0.1, 0.2, 0.3, 0.4} at 90 degrees maps to {0.4, 0.1, 0.4, 0.3}. *)
C9_RemapFormulas ==
    (fn = "remapCropForRotation" /\ args.rotation.d = 1
        /\ Mod360(args.rotation) \in {0, 90, 180, 270}) =>
        /\ Mod360(args.rotation) = 0 => result = args.crop
        /\ Mod360(args.rotation) = 90 =>
              result = CropOf(Sub(One, Add(args.crop.y, args.crop.height)), args.crop.x,
                              args.crop.height, args.crop.width)
        /\ Mod360(args.rotation) = 180 =>
              result = CropOf(Sub(One, Add(args.crop.x, args.crop.width)),
                              Sub(One, Add(args.crop.y, args.crop.height)),
                              args.crop.width, args.crop.height)
        /\ Mod360(args.rotation) = 270 =>
              result = CropOf(args.crop.y, Sub(One, Add(args.crop.x, args.crop.width)),
                              args.crop.height, args.crop.width)
        /\ (args.crop = ScenarioB /\ args.rotation = N(90)) =>
              result = CropOf(Q(2, 5), Q(1, 10), Q(2, 5), Q(3, 10))

C9_Witness ==
    /\ fn = "remapCropForRotation"
    /\ args = [crop |-> ScenarioB, rotation |-> N(-90)]
    /\ result = CropOf(Q(1, 5), Q(3, 5), Q(2, 5), Q(3, 10))

(* C10: crop normalization keeps the size: the normalized width and height
   are the input width and height clamped into [0.01, 1]; when the clamped x
   plus that width exceeds 1, x becomes 1 - width, and likewise y; so
   {0.9, 0.9, 0.3, 0.3} normalizes to {0.7, 0.7, 0.3, 0.3}. *)
C10_CropShiftKeepsSize ==
    (fn = "normalizeEditHistory" /\ args.editHistory # Null
        /\ args.editHistory.cropArea # Null) =>
        /\ result.cropArea.width = Clamp(args.editHistory.cropArea.width, Q(1, 100), One)
        /\ result.cropArea.height = Clamp(args.editHistory.cropArea.height, Q(1, 100), One)
        /\ Gt(Add(Clamp(args.editHistory.cropArea.x, Zero, One), result.cropArea.width), One)
              => result.cropArea.x = Sub(One, result.cropArea.width)
        /\ Gt(Add(Clamp(args.editHistory.cropArea.y, Zero, One), result.cropArea.height), One)
              => result.cropArea.y = Sub(One, result.cropArea.height)
        /\ args.editHistory.cropArea = ScenarioD
              => result.cropArea = CropOf(Q(7, 10), Q(7, 10), Q(3, 10), Q(3, 10))

C10_Witness ==
    /\ fn = "normalizeEditHistory"
    /\ args.editHistory = EditOf(ScenarioD, Zero, N(100), Zero, Zero)
    /\ result.cropArea = CropOf(Q(7, 10), Q(7, 10), Q(3, 10), Q(3, 10))

\* C11: the sourceRect returned by buildCanonicalTransform lies inside the
\* original page: x >= 0, y >= 0, x + width <= original.width and
\* y + height <= original.height, whatever the crop and the rotation.
C11_SourceRectInsidePage ==
    fn = "buildCanonicalTransform" =>
        /\ Ge(result.sourceRect.x, Zero)
        /\ Ge(result.sourceRect.y, Zero)
        /\ Le(Add(result.sourceRect.x, result.sourceRect.width),
              args.originalDims.width)
        /\ Le(Add(result.sourceRect.y, result.sourceRect.height),
              args.originalDims.height)

\* An out-of-bounds crop captured in a rotated space has been brought inside
\* the page, without covering all of it.
C11_Witness ==
    /\ fn = "buildCanonicalTransform"
    /\ args.editHistory # Null
    /\ args.editHistory.cropArea # Null
    /\ ~InBounds(args.editHistory.cropArea)
    /\ args.editHistory.rotation = N(90)
    /\ Lt(result.sourceRect.width, args.originalDims.width)
    /\ Gt(result.sourceRect.x, Zero)

\* C12: the sourceRect returned by buildCanonicalTransform is at least one
\* pixel wide and one pixel high, for every positive page size and every edit.
C12_SourceRectAtLeastOnePixel ==
    fn = "buildCanonicalTransform" =>
        /\ Ge(result.sourceRect.width, One)
        /\ Ge(result.sourceRect.height, One)

\* C13: the matrix returned by buildAffineMatrix maps the center to the center
\* plus the offset (a*centerX + c*centerY + e = centerX + offsetX and
\* b*centerX + d*centerY + f = centerY + offsetY), and its linear part is a
\* scaled rotation (a = d, b = -c).
C13_AffineKeepsCenter ==
    fn = "buildAffineMatrix" =>
        /\ Add(Add(Mul(result.a, args.centerX), Mul(result.c, args.centerY)), result.e)
               = Add(args.centerX, args.offsetX)
        /\ Add(Add(Mul(result.b, args.centerX), Mul(result.d, args.centerY)), result.f)
               = Add(args.centerY, args.offsetY)
        /\ result.a = result.d
        /\ result.b = Neg(result.c)

\* A matrix that rotates off the quarter turns, scales and shifts.
C13_Witness ==
    /\ fn = "buildAffineMatrix"
    /\ args.rotation = N(45)
    /\ args.scale = N(5)
    /\ args.offsetX = N(50)
    /\ result.a # Zero
    /\ result.b # Zero
    /\ result.e # Add(args.centerX, args.offsetX)

\* The edit a call of buildGeometricTransform works on: the one it is given,
\* or the one buildCanonicalTransform normalizes first.
IsTransformCall == fn \in {"buildGeometricTransform", "buildCanonicalTransform"}

EditUsed ==
    IF fn = "buildCanonicalTransform"
    THEN normalizeEditHistory(args.originalDims, args.editHistory)
    ELSE EditOrDefaults(args.editHistory)

\* C14: every transform returned by buildGeometricTransform and
\* buildCanonicalTransform has finalScale = scaleToFit * (scale / 100),
\* drawWidth = sourceRect.width * finalScale, drawHeight = sourceRect.height *
\* finalScale, drawX = -drawWidth / 2 and drawY = -drawHeight / 2, scale being
\* the (normalized) edit scale.
C14_DrawRelations ==
    IsTransformCall =>
        /\ result.finalScale = Mul(result.scaleToFit, Div(EditUsed.scale, N(100)))
        /\ result.drawWidth = Mul(result.sourceRect.width, result.finalScale)
        /\ result.drawHeight = Mul(result.sourceRect.height, result.finalScale)
        /\ result.drawX = Neg(Div(result.drawWidth, N(2)))
        /\ result.drawY = Neg(Div(result.drawHeight, N(2)))

\* A cropped, rotated page under a user scale that was clamped.
C14_Witness ==
    /\ fn = "buildCanonicalTransform"
    /\ args.editHistory # Null
    /\ args.editHistory.cropArea # Null
    /\ args.editHistory.scale = N(600)
    /\ result.scaleToFit # One
    /\ result.finalScale = Mul(result.scaleToFit, N(5))
    /\ result.drawWidth # result.sourceRect.width

\* The vector (x, y) rotated by -rotation, rotation a multiple of 90 degrees.
RotatedByNeg(x, y, rotation) ==
    LET k == normalizeRotation(rotation)
    IN  CASE k = N(0) -> [x |-> x, y |-> y]
          [] k = N(90) -> [x |-> y, y |-> Neg(x)]
          [] k = N(180) -> [x |-> Neg(x), y |-> Neg(y)]
          [] k = N(270) -> [x |-> Neg(y), y |-> x]

\* C15: for rotations that are multiples of 90 degrees,
\* buildGeometricTransform returns (pdfDrawX, pdfDrawY) = target center + the
\* vector (-drawWidth / 2, -drawHeight / 2) rotated by -rotation +
\* (offsetX, -offsetY), and pdfRotation = -rotation; at rotation 0 that is
\* pdfDrawX = target.width / 2 - drawWidth / 2 + offsetX and
\* pdfDrawY = target.height / 2 - drawHeight / 2 - offsetY.
C15_PdfDrawPosition ==
    (fn = "buildGeometricTransform" /\ IsQuarterTurn(EditUsed.rotation)) =>
        LET v == RotatedByNeg(Neg(Div(result.drawWidth, N(2))),
                              Neg(Div(result.drawHeight, N(2))),
                              EditUsed.rotation)
        IN  /\ result.pdfDrawX
                  = Add(Add(Div(args.targetDims.width, N(2)), v.x), EditUsed.offsetX)
            /\ result.pdfDrawY
                  = Sub(Add(Div(args.targetDims.height, N(2)), v.y), EditUsed.offsetY)
            /\ result.pdfRotation = Neg(EditUsed.rotation)
            /\ EditUsed.rotation = Zero =>
                  /\ result.pdfDrawX
                        = Add(Sub(Div(args.targetDims.width, N(2)),
                                  Div(result.drawWidth, N(2))), EditUsed.offsetX)
                  /\ result.pdfDrawY
                        = Sub(Sub(Div(args.targetDims.height, N(2)),
                                  Div(result.drawHeight, N(2))), EditUsed.offsetY)

\* A quarter turn with an offset on both axes and a draw area that is not
\* square.
C15_Witness ==
    /\ fn = "buildGeometricTransform"
    /\ args.editHistory # Null
    /\ args.editHistory.rotation = N(90)
    /\ args.editHistory.offsetY = N(-30)
    /\ result.drawWidth # result.drawHeight
    /\ result.pdfDrawX = Add(Sub(Div(args.targetDims.width, N(2)),
                                 Div(result.drawHeight, N(2))), N(50))

\* C16: for every input rotation that is a multiple of 0.1 degree, the
\* rotation returned by normalizeEditHistory is congruent to the input modulo
\* 360 and lies in (-180, 180]; 270 gives -90, -180 gives 180, 360 gives 0.
C16_ShortestSignedRotation ==
    (/\ fn = "normalizeEditHistory"
     /\ args.editHistory # Null
     /\ Mul(args.editHistory.rotation, N(10)).d = 1) =>
        /\ Gt(result.rotation, N(-180))
        /\ Le(result.rotation, N(180))
        /\ Div(Sub(result.rotation, args.editHistory.rotation), N(360)).d = 1
        /\ args.editHistory.rotation = N(270) => result.rotation = N(-90)
        /\ args.editHistory.rotation = N(-180) => result.rotation = N(180)
        /\ args.editHistory.rotation = N(360) => result.rotation = Zero

\* A rotation in tenths of a degree just past the half turn has been taken
\* the short way round.
C16_Witness ==
    /\ fn = "normalizeEditHistory"
    /\ args.editHistory # Null
    /\ args.editHistory.rotation = Q(1801, 10)
    /\ result.rotation = Q(-1799, 10)

\* C17: for every input scale, 0 and negative values included, the scale
\* returned by normalizeEditHistory is the input clamped into [10, 500].
C17_ScaleClamped ==
    (fn = "normalizeEditHistory" /\ args.editHistory # Null) =>
        result.scale = Clamp(args.editHistory.scale, N(10), N(500))

\* C18: with an absent edit, normalizeEditHistory returns {cropArea: null,
\* rotation: 0, scale: 100, offsetX: 0, offsetY: 0}, and
\* buildCanonicalTransform(d, d, absent) yields the whole page as sourceRect,
\* scaleToFit = finalScale = 1, drawWidth = d.width, drawHeight = d.height and
\* the identity matrix. (Stated for every target page, d included.)
C18_AbsentEditIsIdentity ==
    /\ (fn = "normalizeEditHistory" /\ args.editHistory = Null) =>
          result = EditOf(Null, Zero, N(100), Zero, Zero)
    /\ (fn = "buildCanonicalTransform" /\ args.editHistory = Null) =>
          /\ result.sourceRect = CropOf(Zero, Zero, args.originalDims.width,
                                        args.originalDims.height)
          /\ result.scaleToFit = One
          /\ result.finalScale = One
          /\ result.drawWidth = args.originalDims.width
          /\ result.drawHeight = args.originalDims.height
          /\ result.affineMatrix
                = [a |-> One, b |-> Zero, c |-> Zero, d |-> One, e |-> Zero, f |-> Zero]

\* buildCanonicalTransform(d, d, absent) has returned.
C18_Witness ==
    /\ fn = "buildCanonicalTransform"
    /\ args.editHistory = Null
    /\ args.originalDims = args.targetDims
    /\ result.drawWidth = args.targetDims.width
    /\ result.affineMatrix.a = One

\* The values the recipe format forbids, field by field.
RotationOffends(t) == t # Null /\ t.rotation \notin {N(0), N(90), N(180), N(270)}
ScaleOffends(t) == t # Null /\ (Lt(t.scale, N(10)) \/ Gt(t.scale, N(500)))
CropInvalid(t) ==
    /\ t # Null
    /\ t.crop # Null
    /\ \/ Lt(t.crop.x, Zero) \/ Lt(t.crop.y, Zero)
       \/ Le(t.crop.width, Zero) \/ Le(t.crop.height, Zero)
CropExceeds(t) ==
    /\ t # Null
    /\ t.crop # Null
    /\ \/ Gt(Add(t.crop.x, t.crop.width), Q(101, 100))
       \/ Gt(Add(t.crop.y, t.crop.height), Q(101, 100))

HasError(page, message) ==
    \E k \in 1..Len(result.errors) : result.errors[k] = ErrorOf(page, message)

\* C19: validateRecipe reports, in one list for all pages, a violation for
\* every page whose rotation is outside {0, 90, 180, 270}, whose scale is
\* outside [10, 500] (0 included) or whose crop has a negative x or y, a
\* non-positive width or height, or x + width or y + height above 1.01, and
\* only for those; valid is false when there is any, and true only when no
\* page has such a value.
C19_RejectsOffendingValues ==
    fn = "validateRecipe" =>
        /\ \A i \in 1..Len(args.recipe.pages) :
              /\ RotationOffends(args.recipe.pages[i].transforms)
                    <=> HasError(i, "Invalid rotation")
              /\ ScaleOffends(args.recipe.pages[i].transforms)
                    <=> HasError(i, "Invalid scale")
              /\ CropInvalid(args.recipe.pages[i].transforms)
                    <=> HasError(i, "Invalid crop area")
              /\ CropExceeds(args.recipe.pages[i].transforms)
                    <=> HasError(i, "Crop area exceeds bounds")
        /\ result.valid <=> Len(result.errors) = 0

\* The blobs of type page registered under a quality.
TierBlobs(q) ==
    {k \in DOMAIN manager.blobRegistry :
        manager.blobRegistry[k].type = "page" /\ manager.blobRegistry[k].quality = q}

\* C20: revokeQualityTier(quality) terminates in every reachable manager
\* state, a tier that holds blobs included; on return the tier's LRU list is
\* empty, no blob of the tier is left in the registry, and the number
\* returned is the number of blobs the tier held.
C20_RevokeQualityTierReturns ==
    \A q \in Tiers : \A n \in 0..MaxBlobsCreated :
        (/\ fn = "revokeQualityTier" /\ frame # Null
         /\ args.quality = q /\ Cardinality(TierBlobs(q)) = n)
        ~> (/\ fn = "revokeQualityTier" /\ result # Null
            /\ manager.qualityLRU[q] = <<>>
            /\ TierBlobs(q) = {}
            /\ result.value = n)

\* The key a registerBlob or upgradeQuality call has registered.
RegisteredKey ==
    IF fn = "upgradeQuality" THEN makePageKey(args.pageNumber, args.newQuality)
    ELSE args.pageKey

\* C21: when registerBlob or upgradeQuality has returned, each quality tier
\* holds at most its configured limit of blobs, the N-up list holds at most
\* maxNupSheets, and the blob just registered is still present.
C21_TiersWithinLimits ==
    (fn \in {"registerBlob", "upgradeQuality"} /\ result # Null) =>
        /\ \A q \in Tiers :
              /\ Len(manager.qualityLRU[q]) <= getLimit(manager, q)
              /\ Cardinality(TierBlobs(q)) <= getLimit(manager, q)
        /\ Len(manager.nupLRU) <= manager.options.maxNupSheets
        /\ hasBlob(manager, RegisteredKey)

\* A registration has pushed a full tier over its limit and a blob has been
\* evicted for it.
C21_Witness ==
    /\ fn = "registerBlob" /\ result # Null
    /\ args.type = "page" /\ args.quality = "ULTRA_LOW"
    /\ manager.stats.evictions.ULTRA_LOW > 0
    /\ Len(manager.qualityLRU["ULTRA_LOW"]) = getLimit(manager, "ULTRA_LOW")
    /\ hasBlob(manager, args.pageKey)

\* Two registry entries are kept in the same LRU list.
SameTier(e1, e2) ==
    /\ e1.type = e2.type
    /\ e1.type = "page" => e1.quality = e2.quality

\* k1 comes before k2 in the history of uses.
UsedBefore(keys, k1, k2) ==
    \E i, j \in 1..Len(keys) : i < j /\ keys[i] = k1 /\ keys[j] = k2

\* The keys a registerBlob or upgradeQuality step removes by eviction: those
\* it revokes by name (the key it registers, the old key of an upgrade) are
\* not evictions.
NamedKeys ==
    IF fn' = "upgradeQuality"
    THEN {makePageKey(args'.pageNumber, args'.oldQuality),
          makePageKey(args'.pageNumber, args'.newQuality)}
    ELSE {args'.pageKey}

EvictedKeys ==
    (DOMAIN manager.blobRegistry \ DOMAIN manager'.blobRegistry) \ NamedKeys

RegisterStep == Idle /\ fn' \in {"registerBlob", "upgradeQuality"}

\* C22: eviction is least-recently-used per tier: in every registerBlob or
\* upgradeQuality step, a blob that is evicted was used (registered, touched or
\* fetched) before every blob of its tier that survives the step, the blob
\* being registered counting as the most recent use.
C22_EvictsLeastRecentlyUsed ==
    [][RegisterStep =>
          \A k \in EvictedKeys :
              \A k2 \in DOMAIN manager'.blobRegistry :
                  SameTier(manager.blobRegistry[k], manager'.blobRegistry[k2]) =>
                      UsedBefore(Used(recency, RegisteredKey'), k, k2)]_vars

\* C22 witness: registerBlob of a third ULTRA_LOW page has evicted one of the
\* two pages of that tier and kept the other, the more recently used one.
C22_Witness ==
    /\ fn = "registerBlob" /\ result # Null
    /\ args.type = "page" /\ args.quality = "ULTRA_LOW"
    /\ manager.stats.totalBlobsCreated = 3
    /\ manager.stats.totalBlobsRevoked = 1
    /\ manager.stats.evictions.ULTRA_LOW = 1
    /\ recency = <<makePageKey(1, "ULTRA_LOW"), args.pageKey>>
    /\ args.pageKey = makePageKey(3, "ULTRA_LOW")
    /\ manager.qualityLRU["ULTRA_LOW"] =
          <<[pageKey |-> makePageKey(1, "ULTRA_LOW")], [pageKey |-> args.pageKey]>>

\* The sizes of the registered entries under a set of keys, summed.
RECURSIVE SumOfSizes(_, _)
SumOfSizes(registry, keys) ==
    IF keys = {} THEN 0
    ELSE LET k == CHOOSE key \in keys : TRUE
         IN registry[k].size + SumOfSizes(registry, keys \ {k})

\* The number of items of an LRU list under a key.
Occurrences(lru, pageKey) ==
    Cardinality({i \in 1..Len(lru) : lru[i].pageKey = pageKey})

\* The nup blobs of the registry.
NupBlobs == {k \in DOMAIN manager.blobRegistry : manager.blobRegistry[k].type = "nup"}

\* C23: in every manager state between public operations the statistics, the
\* registry and the LRU lists agree: currentBlobCount is the registry size and
\* is totalBlobsCreated - totalBlobsRevoked; activeBlobSize is the sum of the
\* registered sizes; every registered page or nup key is exactly once in the
\* LRU list of its own tier and in no other; no LRU list holds an unregistered
\* key; and after clear() the counts are zero and the registry and the lists
\* empty.
C23_RegistryStatsAndListsAgree ==
    (manager # Null /\ frame = Null) =>
        /\ manager.stats.currentBlobCount = Cardinality(DOMAIN manager.blobRegistry)
        /\ manager.stats.currentBlobCount =
              manager.stats.totalBlobsCreated - manager.stats.totalBlobsRevoked
        /\ manager.activeBlobSize =
              SumOfSizes(manager.blobRegistry, DOMAIN manager.blobRegistry)
        /\ \A q \in Tiers : \A k \in MemoryKeyIn :
              Occurrences(manager.qualityLRU[q], k) =
                  IF k \in TierBlobs(q) THEN 1 ELSE 0
        /\ \A k \in MemoryKeyIn :
              Occurrences(manager.nupLRU, k) = IF k \in NupBlobs THEN 1 ELSE 0
        /\ \A q \in Tiers : \A i \in 1..Len(manager.qualityLRU[q]) :
              manager.qualityLRU[q][i].pageKey \in MemoryKeyIn
        /\ \A i \in 1..Len(manager.nupLRU) :
              manager.nupLRU[i].pageKey \in MemoryKeyIn
        /\ (fn = "clear" /\ result # Null) =>
              /\ manager.stats.currentBlobCount = 0
              /\ manager.stats.totalBlobsCreated = manager.stats.totalBlobsRevoked
              /\ manager.activeBlobSize = 0
              /\ DOMAIN manager.blobRegistry = {}
              /\ \A q \in Tiers : manager.qualityLRU[q] = <<>>
              /\ manager.nupLRU = <<>>

\* C23 witness: clear() has returned on a manager that held blobs (it revoked
\* three, none of them by eviction).
C23_Witness ==
    /\ fn = "clear" /\ result # Null
    /\ manager.stats.totalBlobsRevoked = 3
    /\ \A q \in Tiers : manager.stats.evictions[q] = 0
    /\ manager.stats.evictions.NUP = 0
    /\ manager.stats.totalMemoryFreed > 2048

\* C23 witness of the populated case: a page, an N-up sheet and a preview are
\* registered after a revocation.
C23_WitnessPopulated ==
    /\ fn = "registerBlob" /\ result # Null
    /\ manager.stats.totalBlobsRevoked > 0
    /\ Cardinality(DOMAIN manager.blobRegistry) = 3
    /\ NupBlobs # {}
    /\ \E k \in DOMAIN manager.blobRegistry : manager.blobRegistry[k].type = "preview"

\* The affine matrix of the result applied to the point at which the source
\* rectangle, centred on the target page, has its corner:
\* (target.width / 2 - sourceRect.width / 2,
\*  target.height / 2 - sourceRect.height / 2).
CornerX == Sub(Div(args.targetDims.width, N(2)), Div(result.sourceRect.width, N(2)))
CornerY == Sub(Div(args.targetDims.height, N(2)), Div(result.sourceRect.height, N(2)))

AffineX ==
    Add(Add(Mul(result.affineMatrix.a, CornerX), Mul(result.affineMatrix.c, CornerY)),
        result.affineMatrix.e)
AffineY ==
    Add(Add(Mul(result.affineMatrix.b, CornerX), Mul(result.affineMatrix.d, CornerY)),
        result.affineMatrix.f)

IsQuarterTurnCanonical ==
    /\ fn = "buildCanonicalTransform"
    /\ IsQuarterTurn(EditUsed.rotation)

\* C28: for every call of buildCanonicalTransform whose rotation is a multiple
\* of 90 degrees, and every offset, the affine matrix of the result maps the
\* corner of the centred source rectangle to exactly (pdfDrawX, pdfDrawY).
C28_AffineMapsCornerToPdfDraw ==
    IsQuarterTurnCanonical =>
        /\ AffineX = result.pdfDrawX
        /\ AffineY = result.pdfDrawY

\* What the code does at the quarter turns: the x coordinates agree, and the
\* y coordinates are apart by twice the (normalized) offsetY, the matrix
\* adding the offset that pdfDrawY subtracts.
C28_AffineYOffByTwiceOffsetY ==
    IsQuarterTurnCanonical =>
        /\ AffineX = result.pdfDrawX
        /\ AffineY = Add(result.pdfDrawY, Mul(N(2), EditUsed.offsetY))

\* The quarter turn from one quarter turn to another, in [0, 360).
TurnBetween(r1, r2) == N((r2.n - r1.n + 360) % 360)

IsQuarterRemap ==
    /\ fn = "remapCropBetweenRotations"
    /\ args.oldRotation \in QuarterIn
    /\ args.newRotation \in QuarterIn

\* C29: crop remapping is a group action of the quarter turns. For every crop
\* c and r1, r2, r3 in {0, 90, 180, 270}: remapCropBetweenRotations(c, r1, r2)
\* is forwardMapCropToRotation(c, (r2 - r1) mod 360), the same for every pair
\* of quarter turns that far apart; it is c when r1 = r2; remapping the result
\* from r2 to r3 gives remapCropBetweenRotations(c, r1, r3); and an in-bounds
\* crop stays in-bounds, its width and height exchanged when r2 - r1 is 90 or
\* 270 and kept when it is 0 or 180.
C29_RemapIsGroupAction ==
    IsQuarterRemap =>
        LET c == args.crop
            r1 == args.oldRotation
            r2 == args.newRotation
            turn == TurnBetween(r1, r2)
        IN  /\ result = forwardMapCropToRotation(c, turn)
            /\ \A s1, s2 \in QuarterIn :
                  TurnBetween(s1, s2) = turn =>
                      remapCropBetweenRotations(c, s1, s2) = result
            /\ r1 = r2 => result = c
            /\ \A r3 \in QuarterIn :
                  remapCropBetweenRotations(result, r2, r3)
                      = remapCropBetweenRotations(c, r1, r3)
            /\ InBounds(c) =>
                  /\ InBounds(result)
                  /\ IF turn \in {N(90), N(270)}
                     THEN result.width = c.height /\ result.height = c.width
                     ELSE result.width = c.width /\ result.height = c.height

\* C29 witness: an in-bounds crop that is not square, remapped from 270 to 180
\* degrees (a turn of 270): its sides are exchanged and its position moves.
C29_Witness ==
    /\ IsQuarterRemap
    /\ args.crop = ScenarioB
    /\ args.oldRotation = N(270) /\ args.newRotation = N(180)
    /\ result = forwardMapCropToRotation(ScenarioB, N(270))
    /\ result.width = Q(2, 5) /\ result.height = Q(3, 10)
    /\ result.x # ScenarioB.x

\* C29 witness of a crop that is not in bounds.
C29_WitnessOutOfBounds ==
    /\ IsQuarterRemap
    /\ ~InBounds(args.crop)
    /\ args.oldRotation = N(90) /\ args.newRotation = N(0)
    /\ result # args.crop

\* The cached entries of a page, by the page their canvas shows.
EntriesOfPage(cache, pageNumber) ==
    SelectSeq(cache, LAMBDA entry : entry.canvas.page = pageNumber)
EntriesOfOtherPages(cache, pageNumber) ==
    SelectSeq(cache, LAMBDA entry : entry.canvas.page # pageNumber)

IsClearPageCacheStep == Idle /\ fn' = "clearPageCache"

\* C30: clearPageCache(n) removes exactly the cached previews of page n: after
\* the call no entry of page n remains, and the entries of every other page
\* (page 10 or 12 when n = 1) are those that were cached before, unchanged.
C30_ClearsExactlyThePage ==
    [][IsClearPageCacheStep =>
          /\ EntriesOfPage(previewCache', args'.pageNumber) = <<>>
          /\ EntriesOfOtherPages(previewCache', args'.pageNumber)
                = EntriesOfOtherPages(previewCache, args'.pageNumber)]_vars

\* What the code does: no entry of page n remains, and the entries that
\* remain are those of the pages whose key does not hold "page":n as text,
\* so that clearing page 1 clears the pages 10 and 12 too.
C30_ClearsPagesByKeyText ==
    [][IsClearPageCacheStep =>
          /\ EntriesOfPage(previewCache', args'.pageNumber) = <<>>
          /\ previewCache' =
                SelectSeq(previewCache, LAMBDA entry :
                    ~Includes(<<"{", "\"", "p", "a", "g", "e", "\"", ":">> \o NumberString(entry.canvas.page),
                              <<"{", "\"", "p", "a", "g", "e", "\"", ":">> \o NumberString(args'.pageNumber)))]_vars

\* The renderFunction calls that have not settled: the processQueue call in
\* progress that made each, and its page.
RendersInFlight ==
    {call \in (1..Len(loops)) \X (1..MaxLoaderPage) :
        call[2] \in loops[call[1]].inFlight}

\* C24: the loader renders each page at most once: under queuePages calls
\* (made while an earlier job is being processed or not) and renders that all
\* succeed, with no abort and no clear(), no page is passed to renderFunction
\* more than once, and no page is in loadingPages and in loadedPages at the
\* same time.
C24_EachPageRenderedOnce ==
    (loader # Null /\ ~observed.clears /\ ~observed.aborts /\ ~observed.failures) =>
        /\ \A p \in 1..MaxLoaderPage : observed.started[p] <= 1
        /\ loader.loadingPages \cap loader.loadedPages = {}

\* C25: the queue is processed sequentially under every interleaving of
\* queuePages, abort, resume, clear and render completions: at most one
\* processQueue call is in progress, at most pagesPerMicroBatch renderFunction
\* calls are in flight, and the renders in flight are those of one
\* micro-batch (a micro-batch starts when the renders of the one before have
\* settled).
C25_OneLoopOneMicroBatch ==
    loader # Null =>
        /\ Len(loops) <= 1
        /\ Cardinality(RendersInFlight) <= loader.options.pagesPerMicroBatch
        /\ Cardinality({k \in 1..Len(loops) : loops[k].inFlight # {}}) <= 1

\* C26: abort() cancels the loading: once it has returned, renderFunction is
\* not called for a page that was queued before it and not queued again
\* since, whatever resume() and queuePages calls follow.
C26_NoRenderStartsAfterAbort ==
    loader # Null => observed.late = {}

\* C27: every promise returned by loadPagesSequentially is eventually
\* resolved, given that every renderFunction call that was started settles:
\* whatever pages are requested (pages that are all loaded or loading
\* included) and whether or not the loader is aborted.
C27_EveryPromiseResolves ==
    \A id \in 1..MaxRequests :
        (loader # Null /\ id <= Len(promises))
            ~> (id <= Len(promises) /\ promises[id] = "resolved")

====
